---- MODULE Spec2Model ----
(***************************************************************************)
(* A model of the react-form-array hooks: useFormArray (the list mirror)   *)
(* and useFormMap (the record mirror), as React runs them: event handlers  *)
(* act on itemsRef.current, a render commits the React state and runs the  *)
(* reconciliation effect.                                                  *)
(***************************************************************************)
EXTENDS Integers, Sequences, FiniteSets, TLC

\* ------------------------------------------------------------------ bounds
\* longest shadow sequence / external collection explored
MaxLen == 3
\* longest record shadow explored (useFormMap)
MaxMapLen == 2
\* number of distinct item values explored (values are opaque to the hooks)
MaxVal == 2
\* number of distinct map keys explored
MaxKey == 2
\* longest result of a setItems transform explored
MaxSet == 2
\* cap on the UNIQUE_ID counter of generateKey
MaxId == 4
\* longest shadow explored under the point operations with metadata
MaxEdit == 2

\* ------------------------------------------------------------- value sets
\* JavaScript's undefined, as a metadata field value
undefined == 0
Vals == 1..MaxVal
\* map keys: the number k stands for a non-numeric string key, in lexical order
MapKeys == 1..MaxKey
ArrayMode == "array"
MapMode == "map"

VARIABLES
    mode,           \* which hook is mounted: useFormArray or useFormMap
    initMetas,      \* options.initMetas is configured
    sort,           \* options.sort of useFormMap: "false" (or absent),
                    \* "true", or "function" for a comparator of the caller
    UNIQUE_ID,      \* the counter of generateKey
    itemsRef,       \* itemsRef.current, which is also the pending `items` state
    appendKey,      \* the `appendKey` state as of the last render
    appendKeyState, \* the pending value of the `appendKey` state
    hostValue,      \* the host's collection, handed back as the `values` prop
    called,         \* the last operation invoked setValues, and the host
                    \* still holds the value it was handed
    thrown,         \* the last operation threw
    draggingSource, \* useFormDrag: the `draggingSource` state as rendered
    draggingTarget, \* useFormDrag: the `draggingTarget` state as rendered
    sourceState,    \* the pending value of the `draggingSource` state
    targetState,    \* the pending value of the `draggingTarget` state
    moved           \* the moveItem call the last drag handler made, if any

\* The rendered `items` state is not a variable: every setItemsState(x) comes
\* with itemsRef.current = x, the operations read itemsRef.current only, and
\* the effect reads `items` right after the commit, when it equals the ref.
vars == <<mode, initMetas, sort, UNIQUE_ID, itemsRef, appendKey,
          appendKeyState, hostValue, called, thrown,
          draggingSource, draggingTarget, sourceState, targetState, moved>>

\* --------------------------------------------------------------- utilities
\* generateKey: `item-${UNIQUE_ID++}`, for the counter value n
generateKey(n) == "item-" \o ToString(n)

\* metadata objects are sets of <<field, value>> pairs, one pair per field
EmptyMeta == {}
MetaHas(meta, field) == \E p \in meta : p[1] = field
MetaGet(meta, field) ==
    IF MetaHas(meta, field) THEN (CHOOSE p \in meta : p[1] = field)[2]
    ELSE undefined
\* { ...meta, [field]: value }
MetaWith(meta, field, value) ==
    {p \in meta : p[1] # field} \cup {<<field, value>>}

\* the initMetas option of the examples: one field computed from the value
InitMetasFn(value) == {<<"init", value>>}
\* initMetaRef.current?.(value) || {}
InitMeta(value) == IF initMetas THEN InitMetasFn(value) ELSE EmptyMeta

\* a hole of a JavaScript array: what items[i] gives for an absent index
undefinedItem == [undefined |-> TRUE]

\* Array.prototype.slice(start, end) on 0-based, possibly negative, indices
SliceIndex(n, a) ==
    IF a < 0 THEN (IF n + a < 0 THEN 0 ELSE n + a)
    ELSE IF a > n THEN n ELSE a
Slice(s, start, end) ==
    LET from == SliceIndex(Len(s), start)
        to == SliceIndex(Len(s), end)
    IN  IF to <= from THEN <<>> ELSE SubSeq(s, from + 1, to)
SliceFrom(s, start) == Slice(s, start, Len(s))
\* items[i] for a 0-based index
ItemAt(s, i) == IF i >= 0 /\ i < Len(s) THEN s[i + 1] ELSE undefinedItem
HasHole(s) == \E k \in 1..Len(s) : s[k] = undefinedItem

\* the latest shadow an operation reads: itemsRef.current
AppendedSinceRender(item) ==
    appendKey # appendKeyState /\ item.key = appendKey
RenderedItems ==
    SelectSeq(itemsRef, LAMBDA item : ~AppendedSinceRender(item))
LatestItems == itemsRef

\* the indices callers pass for the current shadow: those in range, and one
\* out of range on each side
Idx == (0 - 1)..Len(itemsRef)

\* the value NaN, which a list or a record of numbers may hold
NaN == 0
\* a === b on values
StrictEquals(a, b) == a = b /\ a # NaN

\* ==================================================== useFormArray (list)
\* areItemsCompatible of useFormArray
ArrayNeverCompatible(vals, its) == FALSE
AreItemsCompatibleArray(vals, its) ==
    /\ Len(vals) = Len(its)
    /\ \A i \in 1..Len(its) : StrictEquals(its[i].value, vals[i])

\* the items the reconciliation effect builds, keys from counter value id on
ArrayRebuildReusingKeys(vals, id) ==
    [i \in 1..Len(vals) |->
        [key |-> generateKey(i - 1), index |-> i - 1,
         value |-> vals[i], meta |-> InitMeta(vals[i])]]
ArrayRebuild(vals, id) ==
    [i \in 1..Len(vals) |->
        [key |-> generateKey(id + i - 1), index |-> i - 1,
         value |-> vals[i], meta |-> InitMeta(vals[i])]]

\* updateItems: item.index === index ? item : { ...item, index }
ArrayKeepIndex(its) == its
ArrayFixIndexDropMeta(its) ==
    [i \in 1..Len(its) |->
        IF its[i].index = i - 1 THEN its[i]
        ELSE [its[i] EXCEPT !.index = i - 1, !.meta = EmptyMeta]]
ArrayFixIndex(its) ==
    [i \in 1..Len(its) |->
        IF its[i].index = i - 1 THEN its[i]
        ELSE [its[i] EXCEPT !.index = i - 1]]
\* items.map((item) => item.value)
ArrayValues(its) == [i \in 1..Len(its) |-> its[i].value]

\* setValue: the items handed to updateItems (no meta argument)
SetValueItemsNewKey(its, index, value) ==
    [i \in 1..Len(its) |->
        IF i - 1 = index
        THEN [its[i] EXCEPT !.value = value, !.key = generateKey(UNIQUE_ID)]
        ELSE its[i]]
SetValueItemsWrapped(its, index, value) ==
    [i \in 1..Len(its) |->
        IF i - 1 = index \/ i = Len(its) + 1 + index
        THEN [its[i] EXCEPT !.value = value]
        ELSE its[i]]
SetValueItems(its, index, value) ==
    [i \in 1..Len(its) |->
        IF i - 1 = index THEN [its[i] EXCEPT !.value = value] ELSE its[i]]

\* appendItem: the items handed to updateItems
ArrayAppendItems(its, key, value) ==
    its \o <<[key |-> key, index |-> Len(its), value |-> value,
              meta |-> EmptyMeta]>>

\* insertItem: the items handed to updateItems
ArrayInsertAfter(its, index, key, value) ==
    Slice(its, 0, index + 1)
    \o <<[key |-> key, index |-> index, value |-> value, meta |-> EmptyMeta]>>
    \o SliceFrom(its, index + 1)
ArrayInsertItems(its, index, key, value) ==
    Slice(its, 0, index)
    \o <<[key |-> key, index |-> index, value |-> value, meta |-> EmptyMeta]>>
    \o SliceFrom(its, index)

\* removeItem: filter((_, i) => i !== index)
RemoveFrom(its, index) == Slice(its, 0, index)
RemoveAt(its, index) ==
    LET keep == {i \in 1..Len(its) : i - 1 # index}
        F[k \in 0..Len(its)] ==
            IF k = 0 THEN <<>>
            ELSE IF k \in keep THEN Append(F[k - 1], its[k]) ELSE F[k - 1]
    IN  F[Len(its)]

\* moveItem: the items handed to updateItems, for from # to
MoveSwap(its, from, to) ==
    [i \in 1..Len(its) |->
        IF i - 1 = from THEN ItemAt(its, to)
        ELSE IF i - 1 = to THEN ItemAt(its, from) ELSE its[i]]
MoveItems(its, from, to) ==
    IF from < to
    THEN Slice(its, 0, from) \o Slice(its, from + 1, to + 1)
         \o <<ItemAt(its, from)>> \o SliceFrom(its, to + 1)
    ELSE Slice(its, 0, to) \o <<ItemAt(its, from)>>
         \o Slice(its, to, from) \o SliceFrom(its, from + 1)

\* ===================================================== useFormMap (record)
\* a JavaScript record is its entries <<mapKey, value>> in enumeration order
RecordKeys(rec) == {rec[i][1] : i \in 1..Len(rec)}
RecordGet(rec, mapKey) ==
    rec[CHOOSE i \in 1..Len(rec) : rec[i][1] = mapKey][2]
\* rec[mapKey] = value: a new key goes last, a known key keeps its place
RecordSet(rec, mapKey, value) ==
    IF mapKey \in RecordKeys(rec)
    THEN [i \in 1..Len(rec) |->
            IF rec[i][1] = mapKey THEN <<mapKey, value>> ELSE rec[i]]
    ELSE Append(rec, <<mapKey, value>>)

\* getFixedItemsValues, first pass: one round of the forEach that fills
\* `selected` and `values`, for the item at position index
NotSelected ==
    [seen |-> FALSE, index |-> 0, duplicated |-> FALSE, ignored |-> FALSE]
SelectStepValuesLast(prev, item, index) ==
    LET s == prev.selected[item.mapKey]
    IN  IF ~s.seen
        THEN [selected |->
                [prev.selected EXCEPT ![item.mapKey] =
                    [seen |-> TRUE, index |-> index, duplicated |-> FALSE,
                     ignored |-> item.ignored]],
              values |-> RecordSet(prev.values, item.mapKey, item.value)]
        ELSE IF ~item.ignored /\ s.ignored
        THEN [selected |->
                [prev.selected EXCEPT ![item.mapKey] =
                    [seen |-> TRUE, index |-> index, duplicated |-> TRUE,
                     ignored |-> FALSE]],
              values |-> RecordSet(prev.values, item.mapKey, item.value)]
        ELSE [selected |->
                [prev.selected EXCEPT ![item.mapKey].duplicated = TRUE],
              values |-> RecordSet(prev.values, item.mapKey, item.value)]
SelectStepLatestLive(prev, item, index) ==
    LET s == prev.selected[item.mapKey]
    IN  IF ~s.seen
        THEN [selected |->
                [prev.selected EXCEPT ![item.mapKey] =
                    [seen |-> TRUE, index |-> index, duplicated |-> FALSE,
                     ignored |-> item.ignored]],
              values |-> RecordSet(prev.values, item.mapKey, item.value)]
        ELSE IF ~item.ignored
        THEN [selected |->
                [prev.selected EXCEPT ![item.mapKey] =
                    [seen |-> TRUE, index |-> index, duplicated |-> TRUE,
                     ignored |-> FALSE]],
              values |-> RecordSet(prev.values, item.mapKey, item.value)]
        ELSE [selected |->
                [prev.selected EXCEPT ![item.mapKey].duplicated = TRUE],
              values |-> prev.values]
SelectStep(prev, item, index) ==
    LET s == prev.selected[item.mapKey]
    IN  IF ~s.seen
        THEN [selected |->
                [prev.selected EXCEPT ![item.mapKey] =
                    [seen |-> TRUE, index |-> index, duplicated |-> FALSE,
                     ignored |-> item.ignored]],
              values |-> RecordSet(prev.values, item.mapKey, item.value)]
        ELSE IF ~item.ignored /\ s.ignored
        THEN [selected |->
                [prev.selected EXCEPT ![item.mapKey] =
                    [seen |-> TRUE, index |-> index, duplicated |-> TRUE,
                     ignored |-> FALSE]],
              values |-> RecordSet(prev.values, item.mapKey, item.value)]
        ELSE [selected |->
                [prev.selected EXCEPT ![item.mapKey].duplicated = TRUE],
              values |-> prev.values]
\* the forEach over all the items
Selection(its) ==
    LET F[n \in 0..Len(its)] ==
            IF n = 0
            THEN [selected |-> [k \in MapKeys |-> NotSelected], values |-> <<>>]
            ELSE SelectStep(F[n - 1], its[n], n - 1)
    IN  F[Len(its)]

\* getFixedItemsValues, second pass: fix index, duplicated and ignored of one
\* item, given the entry s of `selected` for its mapKey
FixItemKeepFlags(item, index, s) == [item EXCEPT !.index = index]
FixItemInverted(item, index, s) ==
    [item EXCEPT !.index = index, !.duplicated = s.seen /\ s.duplicated,
                 !.ignored = (s.seen /\ s.index = index)]
FixItem(item, index, s) ==
    LET duplicated == s.seen /\ s.duplicated
        ignored == ~(s.seen /\ s.index = index)
    IN  IF /\ item.index = index
           /\ item.duplicated = duplicated
           /\ item.ignored = ignored
        THEN item
        ELSE [item EXCEPT !.index = index, !.duplicated = duplicated,
                          !.ignored = ignored]
FixedItemsWith(its, selected) ==
    [i \in 1..Len(its) |-> FixItem(its[i], i - 1, selected[its[i].mapKey])]
\* getFixedItemsValues: the fixed items
FixedItems(its) == FixedItemsWith(its, Selection(its).selected)
\* getFixedItemsValues: the record handed to setValues
ValuesOfAllItems(its) ==
    LET F[n \in 0..Len(its)] ==
            IF n = 0 THEN <<>>
            ELSE RecordSet(F[n - 1], its[n].mapKey, its[n].value)
    IN  F[Len(its)]
FixedValues(its) == Selection(its).values

\* areItemsCompatible of useFormMap
MapCompatibleKeysOnly(vals, its) ==
    /\ \A i \in 1..Len(its) : its[i].mapKey \in RecordKeys(vals)
    /\ RecordKeys(vals) = {its[i].mapKey : i \in 1..Len(its)}
MapCompatibleNoSkip(vals, its) ==
    /\ \A i \in 1..Len(its) :
          /\ its[i].mapKey \in RecordKeys(vals)
          /\ RecordGet(vals, its[i].mapKey) = its[i].value
          /\ \A j \in 1..Len(its) : its[j].mapKey = its[i].mapKey => j = i
    /\ RecordKeys(vals) = {its[i].mapKey : i \in 1..Len(its)}
AreItemsCompatibleMap(vals, its) ==
    LET keys == RecordKeys(vals)
        F[n \in 0..Len(its)] ==
            IF n = 0 THEN [ok |-> TRUE, found |-> {}]
            ELSE LET prev == F[n - 1]
                     item == its[n]
                     fail == [ok |-> FALSE, found |-> prev.found]
                 IN  IF ~prev.ok THEN prev
                     ELSE IF item.mapKey \notin keys THEN fail
                     ELSE IF item.ignored THEN prev
                     ELSE IF item.mapKey \in prev.found THEN fail
                     ELSE IF ~StrictEquals(RecordGet(vals, item.mapKey),
                                           item.value)
                     THEN fail
                     ELSE [ok |-> TRUE,
                           found |-> prev.found \cup {item.mapKey}]
    IN  F[Len(its)].ok /\ F[Len(its)].found = keys

\* the comparator a caller passes as options.sort: entries by descending key
\* (a key is a number that stands for a string, in localeCompare order)
CallerCompare(a, b) == b[1] - a[1]
\* entries.sort(compare), a stable sort, with the comparator of the caller
\* or with ([a], [b]) => a.localeCompare(b)
SortBy(entries, byCaller) ==
    LET Compare(a, b) == IF byCaller THEN CallerCompare(a, b) ELSE a[1] - b[1]
        Insert(sorted, e) ==
            LET pos == Cardinality({i \in 1..Len(sorted) :
                                       Compare(sorted[i], e) <= 0})
            IN  SubSeq(sorted, 1, pos) \o <<e>>
                \o SubSeq(sorted, pos + 1, Len(sorted))
        F[n \in 0..Len(entries)] ==
            IF n = 0 THEN <<>> ELSE Insert(F[n - 1], entries[n])
    IN  F[Len(entries)]
\* entries.sort(([a], [b]) => a.localeCompare(b))
SortEntries(entries) == SortBy(entries, FALSE)
EnumerationOrder(entries) == entries
\* the entries in the order the effect maps them to items
SortedEntries(entries) ==
    IF sort = "function" THEN SortBy(entries, TRUE)
    ELSE IF sort = "true" THEN SortEntries(entries)
    ELSE entries

\* the items the reconciliation effect of useFormMap builds
MapInitMeta(value, mapKey) ==
    IF initMetas THEN InitMetasFn(value) ELSE EmptyMeta
MapRebuild(vals, id) ==
    LET entries == SortedEntries(vals)
    IN  [i \in 1..Len(entries) |->
            [key |-> generateKey(id + i - 1), index |-> i - 1,
             mapKey |-> entries[i][1], value |-> entries[i][2],
             meta |-> MapInitMeta(entries[i][2], entries[i][1]),
             duplicated |-> FALSE, ignored |-> FALSE]]

\* setMapKey: the items handed to updateItems (no meta argument)
SetMapKeyItemsKeepFlag(its, index, mapKey) ==
    [i \in 1..Len(its) |->
        IF i - 1 = index THEN [its[i] EXCEPT !.mapKey = mapKey] ELSE its[i]]
SetMapKeyItemsNewKey(its, index, mapKey) ==
    [i \in 1..Len(its) |->
        IF i - 1 = index
        THEN [its[i] EXCEPT !.mapKey = mapKey, !.ignored = TRUE,
                            !.key = generateKey(UNIQUE_ID)]
        ELSE its[i]]
SetMapKeyItems(its, index, mapKey) ==
    [i \in 1..Len(its) |->
        IF i - 1 = index
        THEN [its[i] EXCEPT !.mapKey = mapKey, !.ignored = TRUE]
        ELSE its[i]]
\* appendItem / insertItem of useFormMap: the new item
MapNewItemLive(key, index, mapKey, value, meta) ==
    [key |-> key, index |-> index, mapKey |-> mapKey, value |-> value,
     meta |-> meta, duplicated |-> FALSE, ignored |-> FALSE]
MapNewItem(key, index, mapKey, value, meta) ==
    [key |-> key, index |-> index, mapKey |-> mapKey, value |-> value,
     meta |-> meta, duplicated |-> FALSE, ignored |-> TRUE]
MapAppendItems(its, key, mapKey, value) ==
    its \o <<MapNewItem(key, Len(its), mapKey, value, EmptyMeta)>>
MapInsertItems(its, index, key, mapKey, value) ==
    Slice(its, 0, index)
    \o <<MapNewItem(key, index, mapKey, value, EmptyMeta)>>
    \o SliceFrom(its, index)

\* ============================================================ the host
\* the collections the host may hold: lists, and records with distinct keys
ArrayHostValues == UNION {[1..n -> Vals] : n \in 0..MaxLen}
MapHostValues ==
    {rec \in UNION {[1..n -> MapKeys \X Vals] : n \in 0..MaxMapLen} :
        \A i, j \in 1..Len(rec) : rec[i][1] = rec[j][1] => i = j}
HostValues == IF mode = ArrayMode THEN ArrayHostValues ELSE MapHostValues

AreItemsCompatible(vals, its) ==
    IF mode = ArrayMode THEN AreItemsCompatibleArray(vals, its)
    ELSE AreItemsCompatibleMap(vals, its)
Rebuild(vals, id) ==
    IF mode = ArrayMode THEN ArrayRebuild(vals, id) ELSE MapRebuild(vals, id)

\* ============================================================== actions
\* no moveItem call
NoMove == <<>>
\* a mirror operation leaves the options and the rendered appendKey alone
MirrorFrame == UNCHANGED <<mode, initMetas, sort, appendKey>>
\* the state of useFormDrag, untouched by whatever is not a drag handler
DragFrame ==
    UNCHANGED <<draggingSource, draggingTarget, sourceState, targetState,
                moved>>
\* what every mirror operation called by the application leaves alone
OpFrame == MirrorFrame /\ DragFrame

\* an operation that returns before updateItems
NoUpdate ==
    /\ called' = FALSE
    /\ thrown' = FALSE
    /\ UNCHANGED <<itemsRef, hostValue>>

\* an operation that throws before it stores anything
Throws ==
    /\ called' = FALSE
    /\ thrown' = TRUE
    /\ UNCHANGED <<itemsRef, hostValue>>

\* updateItems: itemsRef.current = items, next to setItemsState(items)
ArrayRefNotAssigned(fixed) == itemsRef
ArrayRefAssign(fixed) == fixed
MapRefAssign(fixed) == fixed

\* updateItems of useFormArray; items.map throws on a hole
ArrayUpdateItems(its, soft) ==
    IF HasHole(its) THEN Throws
    ELSE /\ itemsRef' = ArrayRefAssign(ArrayFixIndex(its))
         /\ hostValue' = IF soft THEN hostValue
                         ELSE ArrayValues(ArrayFixIndex(its))
         /\ called' = ~soft
         /\ thrown' = FALSE

\* updateItems of useFormMap; getFixedItemsValues throws on a hole
MapUpdateItems(its, soft) ==
    IF HasHole(its) THEN Throws
    ELSE /\ itemsRef' = MapRefAssign(FixedItems(its))
         /\ hostValue' = IF soft THEN hostValue ELSE FixedValues(its)
         /\ called' = ~soft
         /\ thrown' = FALSE

\* ---- the inputs of setItems
\* the entries a transform may return: existing items, each at most once, and
\* bare {value} entries ({mapKey, value} for useFormMap)
ArrayEntries(its) ==
    {[item |-> p, value |-> 0, mapKey |-> 0] : p \in 1..Len(its)}
    \cup {[item |-> 0, value |-> v, mapKey |-> 0] : v \in Vals}
MapEntries(its) ==
    {[item |-> p, value |-> 0, mapKey |-> 0] : p \in 1..Len(its)}
    \cup {[item |-> 0, value |-> v, mapKey |-> k] : v \in Vals, k \in MapKeys}
Transforms(entries) ==
    {res \in UNION {[1..n -> entries] : n \in 0..MaxSet} :
        \A a, b \in 1..Len(res) :
            (res[a].item # 0 /\ res[a].item = res[b].item) => a = b}
BareBefore(res, n) == Cardinality({a \in 1..(n - 1) : res[a].item = 0})
BareCount(res) == BareBefore(res, Len(res) + 1)

\* ---- useFormArray
\* setItems: the items handed to updateItems
ArraySetItemsKeyByPosition(its, res, id) ==
    [n \in 1..Len(res) |->
        IF res[n].item # 0 THEN its[res[n].item]
        ELSE [key |-> generateKey(n), index |-> n - 1,
              value |-> res[n].value, meta |-> InitMeta(res[n].value)]]
ArraySetItemsItems(its, res, id) ==
    [n \in 1..Len(res) |->
        IF res[n].item # 0 THEN its[res[n].item]
        ELSE [key |-> generateKey(id + BareBefore(res, n)), index |-> n - 1,
              value |-> res[n].value, meta |-> InitMeta(res[n].value)]]

ArraySetItemsOp(res) ==
    /\ mode = ArrayMode
    /\ UNIQUE_ID + BareCount(res) <= MaxId
    /\ ArrayUpdateItems(ArraySetItemsItems(LatestItems, res, UNIQUE_ID), FALSE)
    /\ UNIQUE_ID' = UNIQUE_ID + BareCount(res)
    /\ OpFrame
    /\ UNCHANGED appendKeyState
ArraySetItems ==
    \E res \in Transforms(ArrayEntries(LatestItems)) : ArraySetItemsOp(res)

ArraySetValueOp(index, value) ==
    /\ mode = ArrayMode
    /\ ArrayUpdateItems(SetValueItems(LatestItems, index, value), FALSE)
    /\ OpFrame
    /\ UNCHANGED <<UNIQUE_ID, appendKeyState>>
ArraySetValue ==
    \E index \in Idx, value \in Vals : ArraySetValueOp(index, value)

\* the plain value and the updater function passed to a valueSetter callback
PlainValue == 1
Updater(value) == (value % MaxVal) + 1

\* the callback valueSetter(index) returns, called with the value v or, when
\* isFn, with the updater function
ArrayValueSetterOp(index, isFn, v) ==
    /\ mode = ArrayMode
    /\ LET item == ItemAt(LatestItems, index)
           value == IF isFn THEN Updater(item.value) ELSE v
       IN  IF item = undefinedItem THEN NoUpdate
           ELSE ArrayUpdateItems(SetValueItems(LatestItems, index, value),
                                 FALSE)
    /\ OpFrame
    /\ UNCHANGED <<UNIQUE_ID, appendKeyState>>
ArrayValueSetter ==
    \E index \in Idx, isFn \in BOOLEAN :
        ArrayValueSetterOp(index, isFn, PlainValue)

\* appendItem: the key is the appendKey of the last render
ArrayAppendItemOp(value) ==
    /\ mode = ArrayMode
    /\ UNIQUE_ID < MaxId
    /\ Len(LatestItems) < MaxLen
    /\ appendKeyState' = generateKey(UNIQUE_ID)
    /\ UNIQUE_ID' = UNIQUE_ID + 1
    /\ ArrayUpdateItems(ArrayAppendItems(LatestItems, appendKey, value), FALSE)
    /\ OpFrame
ArrayAppendItem == \E value \in Vals : ArrayAppendItemOp(value)

ArrayInsertItemOp(index, value) ==
    /\ mode = ArrayMode
    /\ UNIQUE_ID < MaxId
    /\ Len(LatestItems) < MaxLen
    /\ UNIQUE_ID' = UNIQUE_ID + 1
    /\ ArrayUpdateItems(
          ArrayInsertItems(LatestItems, index, generateKey(UNIQUE_ID), value),
          FALSE)
    /\ OpFrame
    /\ UNCHANGED appendKeyState
ArrayInsertItem ==
    \E index \in Idx, value \in Vals : ArrayInsertItemOp(index, value)

ArrayRemoveItemOp(index) ==
    /\ mode = ArrayMode
    /\ ArrayUpdateItems(RemoveAt(LatestItems, index), FALSE)
    /\ OpFrame
    /\ UNCHANGED <<UNIQUE_ID, appendKeyState>>
ArrayRemoveItem == \E index \in Idx : ArrayRemoveItemOp(index)

\* moveItem, as far as the mirror goes
ArrayMoveItemCall(from, to) ==
    /\ mode = ArrayMode
    /\ Len(MoveItems(LatestItems, from, to)) <= MaxLen
    /\ IF from = to THEN NoUpdate
       ELSE ArrayUpdateItems(MoveItems(LatestItems, from, to), FALSE)
    /\ MirrorFrame
    /\ UNCHANGED <<UNIQUE_ID, appendKeyState>>
ArrayMoveItemOp(from, to) == ArrayMoveItemCall(from, to) /\ DragFrame
ArrayMoveItem == \E from \in Idx, to \in Idx : ArrayMoveItemOp(from, to)

\* the metadata field and value the callers of setMeta use
MetaField == "touched"
MetaValue == 1

\* setMeta: the items handed to updateItems
SetMetaItemsAndValue(its, index, field, meta) ==
    [i \in 1..Len(its) |->
        IF i - 1 = index
        THEN [its[i] EXCEPT !.meta = MetaWith(its[i].meta, field, meta),
                            !.value = meta]
        ELSE its[i]]
SetMetaItems(its, index, field, meta) ==
    [i \in 1..Len(its) |->
        IF i - 1 = index
        THEN [its[i] EXCEPT !.meta = MetaWith(its[i].meta, field, meta)]
        ELSE its[i]]

\* resetMetas without argument: the items handed to updateItems
ResetMetasItems(its) ==
    [i \in 1..Len(its) |-> [its[i] EXCEPT !.meta = InitMeta(its[i].value)]]

ArraySetMetaOp(index) ==
    /\ mode = ArrayMode
    /\ ArrayUpdateItems(
          SetMetaItems(LatestItems, index, MetaField, MetaValue), TRUE)
    /\ OpFrame
    /\ UNCHANGED <<UNIQUE_ID, appendKeyState>>
ArraySetMeta == \E index \in Idx : ArraySetMetaOp(index)

ArrayResetMetas ==
    /\ mode = ArrayMode
    /\ ArrayUpdateItems(ResetMetasItems(LatestItems), TRUE)
    /\ OpFrame
    /\ UNCHANGED <<UNIQUE_ID, appendKeyState>>

\* ---- useFormMap
\* setItems: the items handed to updateItems
MapSetItemsItems(its, res, id) ==
    [n \in 1..Len(res) |->
        IF res[n].item # 0 THEN its[res[n].item]
        ELSE [key |-> generateKey(id + BareBefore(res, n)), index |-> n - 1,
              mapKey |-> res[n].mapKey, value |-> res[n].value,
              meta |-> MapInitMeta(res[n].value, res[n].mapKey),
              duplicated |-> FALSE, ignored |-> TRUE]]

MapSetItemsOp(res) ==
    /\ mode = MapMode
    /\ UNIQUE_ID + BareCount(res) <= MaxId
    /\ MapUpdateItems(MapSetItemsItems(LatestItems, res, UNIQUE_ID), FALSE)
    /\ UNIQUE_ID' = UNIQUE_ID + BareCount(res)
    /\ OpFrame
    /\ UNCHANGED appendKeyState
MapSetItems ==
    \E res \in Transforms(MapEntries(LatestItems)) : MapSetItemsOp(res)

MapSetMapKeyOp(index, mapKey) ==
    /\ mode = MapMode
    /\ MapUpdateItems(SetMapKeyItems(LatestItems, index, mapKey), FALSE)
    /\ OpFrame
    /\ UNCHANGED <<UNIQUE_ID, appendKeyState>>
MapSetMapKey ==
    \E index \in Idx, mapKey \in MapKeys : MapSetMapKeyOp(index, mapKey)

MapSetValueOp(index, value) ==
    /\ mode = MapMode
    /\ MapUpdateItems(SetValueItems(LatestItems, index, value), FALSE)
    /\ OpFrame
    /\ UNCHANGED <<UNIQUE_ID, appendKeyState>>
MapSetValue == \E index \in Idx, value \in Vals : MapSetValueOp(index, value)

MapValueSetterOp(index, isFn, v) ==
    /\ mode = MapMode
    /\ LET item == ItemAt(LatestItems, index)
           value == IF isFn THEN Updater(item.value) ELSE v
       IN  IF item = undefinedItem THEN NoUpdate
           ELSE MapUpdateItems(SetValueItems(LatestItems, index, value), FALSE)
    /\ OpFrame
    /\ UNCHANGED <<UNIQUE_ID, appendKeyState>>
MapValueSetter ==
    \E index \in Idx, isFn \in BOOLEAN :
        MapValueSetterOp(index, isFn, PlainValue)

MapAppendItemOp(mapKey, value) ==
    /\ mode = MapMode
    /\ UNIQUE_ID < MaxId
    /\ Len(LatestItems) < MaxMapLen
    /\ appendKeyState' = generateKey(UNIQUE_ID)
    /\ UNIQUE_ID' = UNIQUE_ID + 1
    /\ MapUpdateItems(MapAppendItems(LatestItems, appendKey, mapKey, value),
                      FALSE)
    /\ OpFrame
MapAppendItem ==
    \E mapKey \in MapKeys, value \in Vals : MapAppendItemOp(mapKey, value)

MapInsertItemOp(index, mapKey, value) ==
    /\ mode = MapMode
    /\ UNIQUE_ID < MaxId
    /\ Len(LatestItems) < MaxMapLen
    /\ UNIQUE_ID' = UNIQUE_ID + 1
    /\ MapUpdateItems(
          MapInsertItems(LatestItems, index, generateKey(UNIQUE_ID), mapKey,
                         value), FALSE)
    /\ OpFrame
    /\ UNCHANGED appendKeyState
MapInsertItem ==
    \E index \in Idx, mapKey \in MapKeys, value \in Vals :
        MapInsertItemOp(index, mapKey, value)

MapRemoveItemOp(index) ==
    /\ mode = MapMode
    /\ MapUpdateItems(RemoveAt(LatestItems, index), FALSE)
    /\ OpFrame
    /\ UNCHANGED <<UNIQUE_ID, appendKeyState>>
MapRemoveItem == \E index \in Idx : MapRemoveItemOp(index)

MapMoveItemOp(from, to) ==
    /\ mode = MapMode
    /\ Len(MoveItems(LatestItems, from, to)) <= MaxMapLen
    /\ IF from = to THEN NoUpdate
       ELSE MapUpdateItems(MoveItems(LatestItems, from, to), FALSE)
    /\ OpFrame
    /\ UNCHANGED <<UNIQUE_ID, appendKeyState>>
MapMoveItem == \E from \in Idx, to \in Idx : MapMoveItemOp(from, to)

MapSetMetaOp(index) ==
    /\ mode = MapMode
    /\ MapUpdateItems(
          SetMetaItems(LatestItems, index, MetaField, MetaValue), TRUE)
    /\ OpFrame
    /\ UNCHANGED <<UNIQUE_ID, appendKeyState>>
MapSetMeta == \E index \in Idx : MapSetMetaOp(index)

MapResetMetas ==
    /\ mode = MapMode
    /\ MapUpdateItems(ResetMetasItems(LatestItems), TRUE)
    /\ OpFrame
    /\ UNCHANGED <<UNIQUE_ID, appendKeyState>>

\* ---- React and the host
\* the reconciliation effect, run after a render with the props `vals`
Reconcile(vals) ==
    IF AreItemsCompatible(vals, itemsRef)
    THEN UNCHANGED <<itemsRef, UNIQUE_ID>>
    ELSE /\ UNIQUE_ID + Len(vals) <= MaxId
         /\ itemsRef' = Rebuild(vals, UNIQUE_ID)
         /\ UNIQUE_ID' = UNIQUE_ID + Len(vals)

\* what a render does besides the effect: it commits the pending appendKey
\* and the pending state of useFormDrag
RenderFrame ==
    /\ appendKey' = appendKeyState
    /\ draggingSource' = sourceState
    /\ draggingTarget' = targetState
    /\ UNCHANGED <<mode, initMetas, sort, appendKeyState, thrown>>
    /\ UNCHANGED <<sourceState, targetState, moved>>

RenderCallingSetter ==
    /\ Reconcile(hostValue)
    /\ RenderFrame
    /\ hostValue' = hostValue
    /\ called' = TRUE
\* React renders again: the host hands back the collection it holds, and the
\* reconciliation effect runs
Render ==
    /\ Reconcile(hostValue)
    /\ RenderFrame
    /\ UNCHANGED <<hostValue, called>>

\* the host replaces its collection by a value of its own, which renders the
\* hook with that value
ExternalResetTo(v) ==
    /\ v # hostValue
    /\ hostValue' = v
    /\ called' = FALSE
    /\ Reconcile(v)
    /\ RenderFrame
ExternalReset == \E v \in HostValues : ExternalResetTo(v)

\* the mount: useState initializers, the first render and its effect
Init ==
    /\ mode \in {ArrayMode, MapMode}
    /\ initMetas \in BOOLEAN
    /\ sort = "false"
    /\ hostValue \in HostValues
    /\ appendKey = generateKey(0)
    /\ appendKeyState = generateKey(0)
    /\ itemsRef = Rebuild(hostValue, 1)
    /\ UNIQUE_ID = 1 + Len(hostValue)
    /\ called = FALSE
    /\ thrown = FALSE
    /\ draggingSource = 0 - 1
    /\ draggingTarget = 0 - 1
    /\ sourceState = 0 - 1
    /\ targetState = 0 - 1
    /\ moved = NoMove

Next ==
    \/ ArraySetItems
    \/ ArraySetValue
    \/ ArrayValueSetter
    \/ ArrayAppendItem
    \/ ArrayInsertItem
    \/ ArrayRemoveItem
    \/ ArrayMoveItem
    \/ MapSetItems
    \/ MapSetMapKey
    \/ MapSetValue
    \/ MapValueSetter
    \/ MapAppendItem
    \/ MapInsertItem
    \/ MapRemoveItem
    \/ MapMoveItem
    \/ Render
    \/ ExternalReset

Spec == Init /\ [][Next]_vars

\* ---- useFormMap mounted with each form of options.sort
InitSort ==
    /\ mode = MapMode
    /\ initMetas \in BOOLEAN
    /\ sort \in {"false", "true", "function"}
    /\ hostValue \in HostValues
    /\ appendKey = generateKey(0)
    /\ appendKeyState = generateKey(0)
    /\ itemsRef = Rebuild(hostValue, 1)
    /\ UNIQUE_ID = 1 + Len(hostValue)
    /\ called = FALSE
    /\ thrown = FALSE
    /\ draggingSource = 0 - 1
    /\ draggingTarget = 0 - 1
    /\ sourceState = 0 - 1
    /\ targetState = 0 - 1
    /\ moved = NoMove

NextSort ==
    \/ MapSetItems
    \/ MapSetMapKey
    \/ MapSetValue
    \/ MapValueSetter
    \/ MapAppendItem
    \/ MapInsertItem
    \/ MapRemoveItem
    \/ MapMoveItem
    \/ Render
    \/ ExternalReset

SpecSort == InitSort /\ [][NextSort]_vars

\* ---- the hooks mounted over numbers, NaN included
InitNaN ==
    /\ mode \in {ArrayMode, MapMode}
    /\ initMetas = FALSE
    /\ sort = "false"
    /\ hostValue \in
           IF mode = ArrayMode
           THEN UNION {[1..n -> Vals \cup {NaN}] : n \in 0..MaxEdit}
           ELSE {rec \in UNION {[1..n -> MapKeys \X (Vals \cup {NaN})] :
                                    n \in 0..MaxMapLen} :
                    \A i, j \in 1..Len(rec) : rec[i][1] = rec[j][1] => i = j}
    /\ appendKey = generateKey(0)
    /\ appendKeyState = generateKey(0)
    /\ itemsRef = Rebuild(hostValue, 1)
    /\ UNIQUE_ID = 1 + Len(hostValue)
    /\ called = FALSE
    /\ thrown = FALSE
    /\ draggingSource = 0 - 1
    /\ draggingTarget = 0 - 1
    /\ sourceState = 0 - 1
    /\ targetState = 0 - 1
    /\ moved = NoMove

SpecNaN == InitNaN /\ [][Next]_vars

\* ---- useFormDrag, wired to the moveItem of a list mirror
\* the drag payload of an event: dataTransfer.effectAllowed is "move", and
\* dataTransfer.types includes the format token of this controller
Payloads == [move : BOOLEAN, hasFormat : BOOLEAN]
\* the payload a drag started by this controller carries
OwnPayload == [move |-> TRUE, hasFormat |-> TRUE]
\* the positions the rendered handlers are bound to
Positions == 0..(Len(itemsRef) - 1)
\* what a drag handler that calls no mirror operation leaves alone
DragOnly ==
    UNCHANGED <<mode, initMetas, sort, UNIQUE_ID, itemsRef, appendKey,
                appendKeyState, hostValue, called, thrown>>
\* the direction draggingClassNames shows for a source and a target
DraggingDirection(source, target) ==
    IF source < 0 \/ target < 0 THEN "none"
    ELSE IF target < source THEN "before" ELSE "after"

\* onDragStart(index, event)
OnDragStartOp(index) ==
    /\ sourceState' = index
    /\ targetState' = 0 - 1
    /\ moved' = NoMove
    /\ UNCHANGED <<draggingSource, draggingTarget>>
    /\ DragOnly
OnDragStart == \E index \in Positions : OnDragStartOp(index)

\* the target onDragOver sets for a position
OverTargetAlways(index) == index
OverTarget(index) == IF index = draggingSource THEN 0 - 1 ELSE index

\* onDragOver(index, event)
OnDragOverOp(index, payload) ==
    /\ IF draggingSource < 0 THEN UNCHANGED targetState
       ELSE IF ~payload.move \/ ~payload.hasFormat THEN UNCHANGED targetState
       ELSE targetState' = OverTarget(index)
    /\ moved' = NoMove
    /\ UNCHANGED <<draggingSource, draggingTarget, sourceState>>
    /\ DragOnly
OnDragOver ==
    \E index \in Positions, payload \in Payloads : OnDragOverOp(index, payload)

\* the state onDrop and onDragEnd set
ResetKeepsSource == [source |-> sourceState, target |-> 0 - 1]
ResetDragging == [source |-> 0 - 1, target |-> 0 - 1]

\* onDrop(event): the payload is not looked at
OnDropOp(payload) ==
    IF draggingSource < 0
    THEN /\ moved' = NoMove
         /\ UNCHANGED <<draggingSource, draggingTarget, sourceState,
                        targetState>>
         /\ DragOnly
    ELSE /\ ArrayMoveItemCall(draggingSource, draggingTarget)
         /\ moved' = <<draggingSource, draggingTarget>>
         /\ IF thrown' THEN UNCHANGED <<sourceState, targetState>>
            ELSE /\ sourceState' = ResetDragging.source
                 /\ targetState' = ResetDragging.target
         /\ UNCHANGED <<draggingSource, draggingTarget>>
OnDrop == \E payload \in Payloads : OnDropOp(payload)

\* onDragEnd, also exposed as resetDragging and as the container's
\* onMouseLeave
OnDragEnd ==
    /\ sourceState' = ResetDragging.source
    /\ targetState' = ResetDragging.target
    /\ moved' = NoMove
    /\ UNCHANGED <<draggingSource, draggingTarget>>
    /\ DragOnly

\* draggingClassNames, read at a position: the class names of the rendered
\* state, each named by its key in the classNames option
draggingClassNames(index) ==
    IF draggingSource < 0 THEN {}
    ELSE IF draggingTarget >= 0 /\ index = draggingTarget
    THEN {"target", IF draggingTarget < draggingSource THEN "before"
                    ELSE "after"}
    ELSE IF index = draggingSource THEN {"source"}
    ELSE {}

\* a component that mounts useFormArray and hands its moveItem to useFormDrag
InitDrag == Init /\ mode = ArrayMode

NextDrag ==
    \/ OnDragStart
    \/ OnDragOver
    \/ OnDrop
    \/ OnDragEnd
    \/ Render

SpecDrag == InitDrag /\ [][NextDrag]_vars

\* ---- the metadata operations (soft updates)
\* the function a caller passes to resetMetas, and the metadata object a
\* caller passes to resetMeta
ArgMetasFn(value) == {<<"reset", value>>}
ArgMeta == {<<MetaField, MetaValue>>}
\* resetMetas(fn): the items handed to updateItems
ResetMetasArgItems(its) ==
    [i \in 1..Len(its) |-> [its[i] EXCEPT !.meta = ArgMetasFn(its[i].value)]]
\* resetMeta(index, meta?): the items handed to updateItems
ResetMetaItems(its, index, withMeta) ==
    [i \in 1..Len(its) |->
        IF i - 1 = index
        THEN [its[i] EXCEPT !.meta = IF withMeta THEN ArgMeta
                                     ELSE InitMeta(its[i].value)]
        ELSE its[i]]
\* the `metas` argument of setMetas: a function of the item, a list (record,
\* for useFormMap) of field values, or undefined
MetasKinds == {"function", "list", "none"}
MetasFn(value) == IF value = 1 THEN MetaValue ELSE undefined
MetasList == <<MetaValue>>
MetasRecord == <<<<1, MetaValue>>>>
\* setMetas of useFormArray: the value given to the field of the item at i
ArraySetMetasValue(kind, item, i) ==
    IF kind = "function" THEN MetasFn(item.value)
    ELSE IF kind = "list"
    THEN (IF i <= Len(MetasList) THEN MetasList[i] ELSE undefined)
    ELSE undefined
ArraySetMetasItems(its, kind) ==
    [i \in 1..Len(its) |->
        [its[i] EXCEPT !.meta =
            MetaWith(its[i].meta, MetaField,
                     ArraySetMetasValue(kind, its[i], i))]]
\* setMetas of useFormMap: ignored items get undefined from a record
MapSetMetasValueNoSkip(kind, item) ==
    IF kind = "function" THEN MetasFn(item.value)
    ELSE IF kind = "list"
    THEN (IF item.mapKey \in RecordKeys(MetasRecord)
          THEN RecordGet(MetasRecord, item.mapKey) ELSE undefined)
    ELSE undefined
MapSetMetasValue(kind, item) ==
    IF kind = "function" THEN MetasFn(item.value)
    ELSE IF ~item.ignored /\ kind = "list"
    THEN (IF item.mapKey \in RecordKeys(MetasRecord)
          THEN RecordGet(MetasRecord, item.mapKey) ELSE undefined)
    ELSE undefined
MapSetMetasItems(its, kind) ==
    [i \in 1..Len(its) |->
        [its[i] EXCEPT !.meta =
            MetaWith(its[i].meta, MetaField, MapSetMetasValue(kind, its[i]))]]
\* the updater a caller passes to a metaSetter callback
MetaUpdater(previous) == IF previous = MetaValue THEN undefined ELSE MetaValue

\* what a metadata operation leaves alone besides the items
SoftFrame == OpFrame /\ UNCHANGED <<UNIQUE_ID, appendKeyState>>

ArrayResetMetasArg ==
    /\ mode = ArrayMode
    /\ ArrayUpdateItems(ResetMetasArgItems(LatestItems), TRUE)
    /\ SoftFrame
ArrayResetMetaOp(index, withMeta) ==
    /\ mode = ArrayMode
    /\ ArrayUpdateItems(ResetMetaItems(LatestItems, index, withMeta), TRUE)
    /\ SoftFrame
ArrayResetMeta ==
    \E index \in Idx, withMeta \in BOOLEAN : ArrayResetMetaOp(index, withMeta)
ArraySetMetasOp(kind) ==
    /\ mode = ArrayMode
    /\ ArrayUpdateItems(ArraySetMetasItems(LatestItems, kind), TRUE)
    /\ SoftFrame
ArraySetMetas == \E kind \in MetasKinds : ArraySetMetasOp(kind)
\* the callback metaSetter(index, field) returns, called with a value or,
\* when isFn, with an updater
ArrayMetaSetterOp(index, isFn) ==
    /\ mode = ArrayMode
    /\ LET item == ItemAt(LatestItems, index)
           value == IF isFn THEN MetaUpdater(MetaGet(item.meta, MetaField))
                    ELSE MetaValue
       IN  IF item = undefinedItem THEN NoUpdate
           ELSE ArrayUpdateItems(
                    SetMetaItems(LatestItems, index, MetaField, value), TRUE)
    /\ SoftFrame
ArrayMetaSetter ==
    \E index \in Idx, isFn \in BOOLEAN : ArrayMetaSetterOp(index, isFn)

MapResetMetasArg ==
    /\ mode = MapMode
    /\ MapUpdateItems(ResetMetasArgItems(LatestItems), TRUE)
    /\ SoftFrame
MapResetMetaOp(index, withMeta) ==
    /\ mode = MapMode
    /\ MapUpdateItems(ResetMetaItems(LatestItems, index, withMeta), TRUE)
    /\ SoftFrame
MapResetMeta ==
    \E index \in Idx, withMeta \in BOOLEAN : MapResetMetaOp(index, withMeta)
MapSetMetasOp(kind) ==
    /\ mode = MapMode
    /\ MapUpdateItems(MapSetMetasItems(LatestItems, kind), TRUE)
    /\ SoftFrame
MapSetMetas == \E kind \in MetasKinds : MapSetMetasOp(kind)
MapMetaSetterOp(index, isFn) ==
    /\ mode = MapMode
    /\ LET item == ItemAt(LatestItems, index)
           value == IF isFn THEN MetaUpdater(MetaGet(item.meta, MetaField))
                    ELSE MetaValue
       IN  IF item = undefinedItem THEN NoUpdate
           ELSE MapUpdateItems(
                    SetMetaItems(LatestItems, index, MetaField, value), TRUE)
    /\ SoftFrame
MapMetaSetter ==
    \E index \in Idx, isFn \in BOOLEAN : MapMetaSetterOp(index, isFn)

\* a mounted mirror under its metadata operations; setMapKey brings in the
\* duplicated and ignored items of the record mirror
NextSoft ==
    \/ ArrayResetMetas
    \/ ArrayResetMetasArg
    \/ ArrayResetMeta
    \/ ArraySetMetas
    \/ ArraySetMeta
    \/ ArrayMetaSetter
    \/ MapResetMetas
    \/ MapResetMetasArg
    \/ MapResetMeta
    \/ MapSetMetas
    \/ MapSetMeta
    \/ MapMetaSetter
    \/ MapSetMapKey
    \/ Render

SpecSoft == Init /\ [][NextSoft]_vars

\* ---- the record mirror on arbitrary item sequences
\* the items a caller can hand to updateItems: any mapKey, value and incoming
\* duplicated / ignored flags, at most MaxLen items
FlagChoices ==
    [mapKey : MapKeys, value : Vals, duplicated : BOOLEAN, ignored : BOOLEAN]
FixInputs ==
    UNION {{[i \in 1..n |->
                [key |-> generateKey(i), index |-> 0, mapKey |-> f[i].mapKey,
                 value |-> f[i].value, meta |-> EmptyMeta,
                 duplicated |-> f[i].duplicated, ignored |-> f[i].ignored]] :
            f \in [1..n -> FlagChoices]} : n \in 0..MaxLen}

\* updateItems(items) of useFormMap on the latest items: one resolution pass
MapUpdateItemsOp ==
    /\ mode = MapMode
    /\ MapUpdateItems(LatestItems, FALSE)
    /\ OpFrame
    /\ UNCHANGED <<UNIQUE_ID, appendKeyState>>

InitResolve ==
    /\ mode = MapMode
    /\ initMetas = FALSE
    /\ sort = "false"
    /\ itemsRef \in FixInputs
    /\ hostValue = <<>>
    /\ UNIQUE_ID = 1 + Len(itemsRef)
    /\ appendKey = generateKey(0)
    /\ appendKeyState = generateKey(0)
    /\ called = FALSE
    /\ thrown = FALSE
    /\ draggingSource = 0 - 1
    /\ draggingTarget = 0 - 1
    /\ sourceState = 0 - 1
    /\ targetState = 0 - 1
    /\ moved = NoMove

NextResolve ==
    \/ MapUpdateItemsOp
    \/ MapSetValue
    \/ MapAppendItem
    \/ MapInsertItem
    \/ MapSetItems

SpecResolve == InitResolve /\ [][NextResolve]_vars

\* ---- the point operations, with and without their meta argument
\* setValue(index, value, meta) and setMapKey(index, mapKey, meta) build
\* { ...item.meta, meta }: the argument is stored under the field "meta"
MetaArgField == "meta"
MergeMetaArg(meta, arg) == MetaWith(meta, MetaArgField, arg)
\* setValue with a meta argument: the items handed to updateItems
SetValueMetaItems(its, index, value, arg) ==
    [i \in 1..Len(its) |->
        IF i - 1 = index
        THEN [its[i] EXCEPT !.value = value,
                            !.meta = MergeMetaArg(its[i].meta, arg)]
        ELSE its[i]]
\* setMapKey with a meta argument: the items handed to updateItems
SetMapKeyMetaItems(its, index, mapKey, arg) ==
    [i \in 1..Len(its) |->
        IF i - 1 = index
        THEN [its[i] EXCEPT !.mapKey = mapKey,
                            !.meta = MergeMetaArg(its[i].meta, arg),
                            !.ignored = TRUE]
        ELSE its[i]]

ArraySetValueMetaOp(index, value) ==
    /\ mode = ArrayMode
    /\ ArrayUpdateItems(SetValueMetaItems(LatestItems, index, value, ArgMeta),
                        FALSE)
    /\ SoftFrame
ArraySetValueMeta ==
    \E index \in Idx, value \in Vals : ArraySetValueMetaOp(index, value)
MapSetValueMetaOp(index, value) ==
    /\ mode = MapMode
    /\ MapUpdateItems(SetValueMetaItems(LatestItems, index, value, ArgMeta),
                      FALSE)
    /\ SoftFrame
MapSetValueMeta ==
    \E index \in Idx, value \in Vals : MapSetValueMetaOp(index, value)
MapSetMapKeyMetaOp(index, mapKey) ==
    /\ mode = MapMode
    /\ MapUpdateItems(SetMapKeyMetaItems(LatestItems, index, mapKey, ArgMeta),
                      FALSE)
    /\ SoftFrame
MapSetMapKeyMeta ==
    \E index \in Idx, mapKey \in MapKeys : MapSetMapKeyMetaOp(index, mapKey)

\* a mounted mirror under the operations that address one position
NextEdit ==
    \/ ArraySetValue
    \/ ArraySetValueMeta
    \/ ArrayValueSetter
    \/ ArrayRemoveItem
    \/ ArraySetMeta
    \/ ArrayResetMeta
    \/ ArrayMetaSetter
    \/ MapSetValue
    \/ MapSetValueMeta
    \/ MapSetMapKey
    \/ MapSetMapKeyMeta
    \/ MapValueSetter
    \/ MapRemoveItem
    \/ MapSetMeta
    \/ MapResetMeta
    \/ MapMetaSetter
    \/ Render

\* the mount of a mirror over at most MaxEdit entries
InitEdit == Init /\ Len(hostValue) <= MaxEdit

SpecEdit == InitEdit /\ [][NextEdit]_vars

\* ---- the setter callbacks
\* a mounted mirror whose values are edited through the callbacks of
\* valueSetter only, while items are appended, inserted, removed and moved
NextSetter ==
    \/ ArrayValueSetter
    \/ ArrayAppendItem
    \/ ArrayInsertItem
    \/ ArrayRemoveItem
    \/ ArrayMoveItem
    \/ MapValueSetter
    \/ MapAppendItem
    \/ MapInsertItem
    \/ MapRemoveItem
    \/ MapMoveItem
    \/ Render

SpecSetter == Init /\ [][NextSetter]_vars

\* ---- hard updates, rebuilds and a soft update together
\* the mirror of Spec, with resetMetas() as the soft update
NextAll ==
    \/ Next
    \/ ArrayResetMetas
    \/ MapResetMetas

SpecAll == Init /\ [][NextAll]_vars

\* ================================================================ claims
\* the parts of an item that identify it and that a reorder must carry along
Core(item) ==
    IF mode = ArrayMode THEN <<item.key, item.value, item.meta>>
    ELSE <<item.key, item.value, item.meta, item.mapKey>>
CoreSeq(its) == [i \in 1..Len(its) |-> Core(its[i])]
KeySeq(its) == [i \in 1..Len(its) |-> its[i].key]
\* the positions of the current shadow, 0-based
InRange == 0..(Len(itemsRef) - 1)
\* the plain list operations, on 0-based positions
PlainSet(vs, i, v) == [vs EXCEPT ![i + 1] = v]
PlainRemove(vs, i) == SubSeq(vs, 1, i) \o SubSeq(vs, i + 2, Len(vs))
\* the keys item-0 .. item-(UNIQUE_ID - 1): every identity generated so far
GeneratedKeys == {generateKey(n) : n \in 0..(UNIQUE_ID - 1)}
\* the items of the shadow that share the mapKey of item i
SameMapKey(its, i) == {j \in 1..Len(its) : its[j].mapKey = its[i].mapKey}

\* no two items of a shadow sequence carry the same identity
UniqueKeys(its) ==
    \A i, j \in 1..Len(its) : its[i].key = its[j].key => i = j
\* a moveItem step with an index out of range
InvalidMoveStep ==
    \E from \in Idx, to \in Idx :
        /\ from \notin InRange \/ to \notin InRange
        /\ ArrayMoveItemOp(from, to) \/ MapMoveItemOp(from, to)

\* C1: in every reachable state of either mirror, no two items of the shadow
\* sequence carry the same identity (key): the mount builds distinct keys, and
\* every step other than a moveItem with an index out of range keeps them
\* distinct, also when no render separates it from the previous operation.
C1_UniqueIdentities ==
    [][(UniqueKeys(itemsRef) /\ ~InvalidMoveStep) => UniqueKeys(itemsRef')
      ]_vars

\* C2: whenever the last operation handed a value to the external setter, that
\* value is the plain value derived from the shadow left behind: the item
\* values in order (list), or the mapping from each mapKey to the value of its
\* one non-ignored item (record).
C2_RoundTrip ==
    called =>
        IF mode = ArrayMode
        THEN /\ Len(hostValue) = Len(itemsRef)
             /\ \A i \in 1..Len(itemsRef) : hostValue[i] = itemsRef[i].value
        ELSE /\ \A a, b \in 1..Len(hostValue) :
                    hostValue[a][1] = hostValue[b][1] => a = b
             /\ {hostValue[a][1] : a \in 1..Len(hostValue)}
                    = {itemsRef[i].mapKey : i \in 1..Len(itemsRef)}
             /\ \A a \in 1..Len(hostValue) :
                    \E i \in 1..Len(itemsRef) :
                        /\ itemsRef[i].mapKey = hostValue[a][1]
                        /\ ~itemsRef[i].ignored
                        /\ itemsRef[i].value = hostValue[a][2]
                        /\ \A j \in SameMapKey(itemsRef, i) :
                               ~itemsRef[j].ignored => j = i
C2_Witness ==
    /\ mode = MapMode
    /\ called
    /\ Len(itemsRef) = 2
    /\ itemsRef[1].mapKey = itemsRef[2].mapKey
    /\ itemsRef[1].value # itemsRef[2].value
    /\ itemsRef[1].ignored

\* C3: every operation is applied to the shadow the previous operation left,
\* also with no render in between: the value it hands to the external setter
\* is the plain edit of the value the previous operation handed over (stated
\* for setValue, a valueSetter updater, appendItem and removeItem of the list
\* mirror and for setValue of the record mirror).
C3_ReadYourWrites ==
    [][/\ \A i \in InRange, v \in Vals :
              ArraySetValueOp(i, v) => hostValue' = PlainSet(hostValue, i, v)
       /\ \A i \in InRange :
              ArrayValueSetterOp(i, TRUE, PlainValue) =>
                  hostValue' = PlainSet(hostValue, i, Updater(hostValue[i + 1]))
       /\ \A v \in Vals :
              ArrayAppendItemOp(v) => hostValue' = Append(hostValue, v)
       /\ \A i \in InRange :
              ArrayRemoveItemOp(i) => hostValue' = PlainRemove(hostValue, i)
       /\ \A i \in InRange, v \in Vals :
              MapSetValueOp(i, v) =>
                  /\ RecordKeys(hostValue') = RecordKeys(hostValue)
                  /\ \A k \in RecordKeys(hostValue) :
                         RecordGet(hostValue', k) =
                             IF /\ k = itemsRef[i + 1].mapKey
                                /\ ~itemsRef[i + 1].ignored
                             THEN v ELSE RecordGet(hostValue, k)
      ]_vars
\* two operations since the last render: an append (its key is still the
\* rendered appendKey) and one that put the appended item before another
C3_Witness ==
    /\ mode = ArrayMode
    /\ called
    /\ appendKey # appendKeyState
    /\ Len(itemsRef) = 3
    /\ itemsRef[1].key = appendKey
    /\ itemsRef[2].key # appendKey
    /\ itemsRef[3].key # appendKey
    /\ hostValue = <<itemsRef[1].value, itemsRef[2].value, itemsRef[3].value>>

C5_IdentityStability ==
    [][\/ KeySeq(itemsRef') = KeySeq(itemsRef)
       \/ ~ \E i \in InRange, v \in Vals :
               \/ ArraySetValueOp(i, v)
               \/ MapSetValueOp(i, v)
               \/ \E isFn \in BOOLEAN : ArrayValueSetterOp(i, isFn, v)
               \/ \E isFn \in BOOLEAN : MapValueSetterOp(i, isFn, v)
      ]_vars
\* an item built by the mount from value 1 now holds value 2 under the key
\* and metadata it was built with
C5_Witness ==
    /\ mode = ArrayMode
    /\ initMetas
    /\ called
    /\ Len(itemsRef) = 3
    /\ KeySeq(itemsRef) = <<generateKey(1), generateKey(2), generateKey(3)>>
    /\ itemsRef[2].meta = InitMetasFn(1)
    /\ itemsRef[2].value = 2

\* C6: when an observed list differs from the shadow in length or at some
\* position, the shadow is rebuilt: one item per entry in order, each with a
\* never-assigned identity and the initializer's metadata (empty without an
\* initializer); nothing of the previous shadow survives.
C6_RebuildOnIncompatible ==
    [][(/\ mode = ArrayMode
        /\ Render \/ ExternalReset
        /\ \/ Len(hostValue') # Len(itemsRef)
           \/ \E i \in 1..Len(itemsRef) : hostValue'[i] # itemsRef[i].value)
       => /\ Len(itemsRef') = Len(hostValue')
          /\ \A i \in 1..Len(itemsRef') :
                /\ itemsRef'[i].value = hostValue'[i]
                /\ itemsRef'[i].index = i - 1
                /\ itemsRef'[i].key \notin GeneratedKeys
                /\ itemsRef'[i].meta =
                       IF initMetas THEN InitMetasFn(hostValue'[i])
                       ELSE EmptyMeta
                /\ \A j \in 1..Len(itemsRef') :
                       itemsRef'[i].key = itemsRef'[j].key => i = j
      ]_vars
\* a shadow of two items rebuilt after the mount: keys past the mount's
C6_Witness ==
    /\ mode = ArrayMode
    /\ initMetas
    /\ ~called
    /\ UNIQUE_ID = 4
    /\ KeySeq(itemsRef) = <<generateKey(2), generateKey(3)>>
    /\ hostValue = <<2, 1>>
    /\ itemsRef[1].meta = InitMetasFn(2)
    /\ itemsRef[2].meta = InitMetasFn(1)

C8_MoveCorrectness ==
    [][\A from \in InRange, to \in InRange :
           (ArrayMoveItemOp(from, to) \/ MapMoveItemOp(from, to))
           => /\ Len(itemsRef') = Len(itemsRef)
              /\ Core(itemsRef'[to + 1]) = Core(itemsRef[from + 1])
              /\ PlainRemove(CoreSeq(itemsRef'), to)
                     = PlainRemove(CoreSeq(itemsRef), from)
              /\ \A i \in 1..Len(itemsRef') : itemsRef'[i].index = i - 1
      ]_vars
\* [a, b, c] after moveItem(0, 2): the mount's first item is now last
C8_Witness ==
    /\ mode = ArrayMode
    /\ called
    /\ Len(itemsRef) = 3
    /\ KeySeq(itemsRef) = <<generateKey(2), generateKey(3), generateKey(1)>>
    /\ itemsRef[3].index = 2

\* C9: moveItem(from, to) with from = to, or with from or to out of range,
\* changes nothing and raises no error.
C9_InvalidMoveIsNoOp ==
    [][\A from \in Idx, to \in Idx :
           (/\ from = to \/ from \notin InRange \/ to \notin InRange
            /\ ArrayMoveItemOp(from, to) \/ MapMoveItemOp(from, to))
           => /\ itemsRef' = itemsRef
              /\ hostValue' = hostValue
              /\ ~thrown'
      ]_vars

\* C10: in every reachable state of the record mirror, each mapKey has exactly
\* one item with ignored = false, and an item has duplicated = true exactly
\* when another item shares its mapKey.
C10_OneWinnerPerKey ==
    mode = MapMode =>
        \A i \in 1..Len(itemsRef) :
            /\ Cardinality({j \in SameMapKey(itemsRef, i) :
                               ~itemsRef[j].ignored}) = 1
            /\ itemsRef[i].duplicated
                   <=> Cardinality(SameMapKey(itemsRef, i)) >= 2
C10_Witness ==
    /\ mode = MapMode
    /\ Len(itemsRef) = 2
    /\ itemsRef[1].mapKey = itemsRef[2].mapKey
    /\ itemsRef[1].duplicated
    /\ ~itemsRef[1].ignored
    /\ itemsRef[2].ignored

\* a shadow sequence without its metadata
WithoutMeta(its) == [i \in 1..Len(its) |-> [its[i] EXCEPT !.meta = EmptyMeta]]
\* a step of one of the metadata operations
SoftStep ==
    \/ ArrayResetMetas \/ ArrayResetMetasArg \/ ArrayResetMeta
    \/ ArraySetMetas \/ ArraySetMeta \/ ArrayMetaSetter
    \/ MapResetMetas \/ MapResetMetasArg \/ MapResetMeta
    \/ MapSetMetas \/ MapSetMeta \/ MapMetaSetter

\* C15: resetMetas, resetMeta, setMetas, setMeta and the metaSetter callbacks
\* of both mirrors never call the external setter and change nothing but
\* metadata: length, order, identities, values, mapKeys and the duplicated /
\* ignored flags of all items stay as they are.
C15_SoftUpdates ==
    [][\/ /\ WithoutMeta(itemsRef') = WithoutMeta(itemsRef)
          /\ hostValue' = hostValue
          /\ ~called'
          /\ ~thrown'
       \/ ~SoftStep
      ]_vars
\* a record shadow with an ignored duplicate, after setMeta on the winner and
\* setMetas with a record on all: the ignored item got undefined
C15_Witness ==
    /\ mode = MapMode
    /\ ~called
    /\ Len(itemsRef) = 2
    /\ itemsRef[1].mapKey = itemsRef[2].mapKey
    /\ itemsRef[1].ignored
    /\ MetaHas(itemsRef[1].meta, MetaField)
    /\ MetaGet(itemsRef[1].meta, MetaField) = undefined
    /\ MetaGet(itemsRef[2].meta, MetaField) = MetaValue
    /\ Len(hostValue) = 1

\* C16: drop() does nothing when source < 0; otherwise it calls moveItem
\* exactly once with the source and target the most recent dragStart /
\* dragOver events have set, and the controller is Idle afterwards.
C16_DropMovesLatest ==
    [][\A payload \in Payloads :
           OnDropOp(payload) =>
               IF sourceState < 0
               THEN /\ moved' = NoMove
                    /\ sourceState' = sourceState
                    /\ targetState' = targetState
                    /\ itemsRef' = itemsRef
               ELSE /\ moved' = <<sourceState, targetState>>
                    /\ sourceState' = 0 - 1
                    /\ targetState' = 0 - 1
      ]_vars

C18_ForeignPayloadIgnored ==
    [][\A i \in Positions, payload \in Payloads :
           (/\ ~payload.hasFormat
            /\ OnDragOverOp(i, payload) \/ OnDropOp(payload))
           => /\ sourceState' = sourceState
              /\ targetState' = targetState
              /\ moved' = NoMove
      ]_vars

\* C19: with the controller wired to a list mirror, a drop() while no target
\* is set (target = -1) leaves the mirrored sequence as it is: same length,
\* same identity at every position, same external value.
C19_DropWithoutTargetKeepsList ==
    [][\A payload \in Payloads :
           (/\ draggingTarget = 0 - 1
            /\ targetState = 0 - 1
            /\ OnDropOp(payload))
           => /\ KeySeq(itemsRef') = KeySeq(itemsRef)
              /\ hostValue' = hostValue
      ]_vars

\* C20: dragEnd() / resetDragging() leads from any controller state to Idle
\* (source = -1, target = -1), calls no moveItem and leaves the mirrored
\* sequence untouched.
C20_DragEndResets ==
    [][OnDragEnd =>
           /\ sourceState' = 0 - 1
           /\ targetState' = 0 - 1
           /\ moved' = NoMove
           /\ itemsRef' = itemsRef
           /\ hostValue' = hostValue
           /\ called' = called
      ]_vars
\* a gesture cancelled while Targeting: Idle is pending, nothing was moved
C20_Witness ==
    /\ draggingSource >= 0
    /\ draggingTarget >= 0
    /\ sourceState = 0 - 1
    /\ targetState = 0 - 1
    /\ moved = NoMove
    /\ ~called

\* the smallest position of a non-empty set of positions
MinPos(S) == CHOOSE i \in S : \A j \in S : i <= j
\* the winner the policy names for the group of item i of an incoming sequence
PolicyWinner(its, i) ==
    LET group == SameMapKey(its, i)
        live == {j \in group : ~its[j].ignored}
    IN  IF live # {} THEN MinPos(live) ELSE MinPos(group)
\* two records hold the same keys with the same values
SameRecord(a, b) ==
    /\ RecordKeys(a) = RecordKeys(b)
    /\ \A k \in RecordKeys(a) : RecordGet(a, k) = RecordGet(b, k)
\* rec is the record of the winners of its
IsDerivedRecord(rec, its) ==
    /\ \A a, b \in 1..Len(rec) : rec[a][1] = rec[b][1] => a = b
    /\ RecordKeys(rec) = {its[i].mapKey : i \in 1..Len(its)}
    /\ \A i \in 1..Len(its) :
           ~its[i].ignored => RecordGet(rec, its[i].mapKey) = its[i].value
    /\ \A k \in RecordKeys(rec) :
           Cardinality({i \in 1..Len(its) :
                           its[i].mapKey = k /\ ~its[i].ignored}) = 1
\* the mapKeys the shadow holds
HeldKeys == {itemsRef[j].mapKey : j \in 1..Len(itemsRef)}
\* the setItems argument that keeps every item and adds one bare entry
KeptItems == [p \in 1..Len(itemsRef) |-> [item |-> p, value |-> 0, mapKey |-> 0]]
BareEntry(k, v) == [item |-> 0, value |-> v, mapKey |-> k]
\* the new item at position p lost against the holder of its mapKey k
Favored(p, k) ==
    /\ itemsRef'[p].ignored
    /\ SameRecord(hostValue', hostValue)
    /\ \A j \in 1..Len(itemsRef') :
           itemsRef'[j].mapKey = k => itemsRef'[j].duplicated

\* C11: the resolution pass selects, in each group of items sharing a mapKey,
\* the earliest item whose incoming ignored flag is false, and the first item
\* of the group when every item of the group comes in ignored; the winner's
\* value is the one the derived record holds.
C11_ResolutionPolicy ==
    [][MapUpdateItemsOp =>
           \A i \in 1..Len(itemsRef) :
               /\ ~itemsRef'[i].ignored <=> i = PolicyWinner(itemsRef, i)
               /\ RecordGet(hostValue', itemsRef[i].mapKey)
                      = itemsRef[PolicyWinner(itemsRef, i)].value
      ]_vars
\* three items of one mapKey resolved with the second as winner: the first
\* came in ignored, the second did not
C11_Witness ==
    /\ called
    /\ Len(itemsRef) = 3
    /\ Cardinality(HeldKeys) = 1
    /\ ~itemsRef[2].ignored
    /\ itemsRef[1].value # itemsRef[2].value
    /\ hostValue = <<<<itemsRef[2].mapKey, itemsRef[2].value>>>>

\* C12: the record derived by the record mirror has the distinct mapKeys of
\* the shadow as its keys and maps each to the value of that key's one
\* non-ignored item; setValue on an ignored item leaves the record unchanged.
C12_DerivedRecord ==
    [][/\ MapUpdateItemsOp => IsDerivedRecord(hostValue', itemsRef')
       /\ \A i \in InRange, v \in Vals :
              MapSetValueOp(i, v) =>
                  /\ IsDerivedRecord(hostValue', itemsRef')
                  /\ (called /\ itemsRef[i + 1].ignored)
                         => SameRecord(hostValue', hostValue)
      ]_vars
\* an ignored item holds a value the record does not show
C12_Witness ==
    /\ called
    /\ Len(itemsRef) = 2
    /\ itemsRef[1].mapKey = itemsRef[2].mapKey
    /\ itemsRef[2].ignored
    /\ itemsRef[2].value # itemsRef[1].value
    /\ hostValue = <<<<itemsRef[1].mapKey, itemsRef[1].value>>>>

\* C13: when appendItem, insertItem at any valid position or setItems with a
\* bare entry brings in an item whose mapKey the shadow already holds, the
\* new item ends ignored, the derived record is unchanged and every item of
\* that mapKey is marked duplicated.
C13_FavorExisting ==
    [][called =>
           \A k \in HeldKeys, v \in Vals :
               /\ MapAppendItemOp(k, v) => Favored(Len(itemsRef) + 1, k)
               /\ \A i \in 0..Len(itemsRef) :
                      MapInsertItemOp(i, k, v) => Favored(i + 1, k)
               /\ MapSetItemsOp(KeptItems \o <<BareEntry(k, v)>>)
                      => Favored(Len(itemsRef) + 1, k)
               /\ MapSetItemsOp(<<BareEntry(k, v)>> \o KeptItems)
                      => Favored(1, k)
      ]_vars
\* a new item put before the holder of its mapKey, and ignored
C13_Witness ==
    /\ called
    /\ Len(itemsRef) = 2
    /\ itemsRef[1].mapKey = itemsRef[2].mapKey
    /\ itemsRef[1].key = generateKey(2)
    /\ itemsRef[2].key = generateKey(1)
    /\ itemsRef[1].ignored /\ itemsRef[1].duplicated
    /\ ~itemsRef[2].ignored /\ itemsRef[2].duplicated
    /\ itemsRef[1].value # itemsRef[2].value
    /\ hostValue = <<<<itemsRef[2].mapKey, itemsRef[2].value>>>>

\* C14: the resolution pass run on its own output changes nothing: same index,
\* duplicated and ignored on every item, same derived record.
C14_ResolutionFixedPoint ==
    [][(called /\ MapUpdateItemsOp)
           => (itemsRef' = itemsRef /\ hostValue' = hostValue)
      ]_vars
\* a resolved shadow with a group of two and a single item
C14_Witness ==
    /\ called
    /\ Len(itemsRef) = 3
    /\ itemsRef[1].mapKey = itemsRef[3].mapKey
    /\ itemsRef[2].mapKey # itemsRef[1].mapKey
    /\ itemsRef[1].ignored /\ ~itemsRef[3].ignored
    /\ itemsRef[1].duplicated /\ ~itemsRef[2].duplicated

\* the item an operation left at the end of the shadow
LastItem(its) == its[Len(its)]
\* the shadow after the step starts with the items it held before the step
KeepsPrefix ==
    /\ Len(itemsRef') = Len(itemsRef) + 1
    /\ SubSeq(CoreSeq(itemsRef'), 1, Len(itemsRef)) = CoreSeq(itemsRef)

\* C21: appendItem(value) appends exactly one item at the end of the shadow,
\* with the given value and the reserved appendKey as identity, and reserves a
\* new appendKey that differs from the committed one and from every item
\* identity; the committed identity is carried by no item the shadow already
\* held, so that two successive appendItem calls, also with no render in
\* between, commit items with different identities.
C21_AppendUsesReservedIdentity ==
    [][\A v \in Vals :
           (ArrayAppendItemOp(v) \/ \E k \in MapKeys : MapAppendItemOp(k, v))
           => /\ KeepsPrefix
              /\ LastItem(itemsRef').key = appendKey
              /\ LastItem(itemsRef').value = v
              /\ appendKeyState' # LastItem(itemsRef').key
              /\ \A j \in 1..Len(itemsRef') :
                     itemsRef'[j].key # appendKeyState'
              /\ \A j \in 1..Len(itemsRef) :
                     itemsRef[j].key # LastItem(itemsRef').key
      ]_vars

\* C22: setItems(transform) on the list mirror leaves exactly the entries of
\* the transform's result, in that order: an entry that is an existing item
\* keeps its identity, value and metadata; a bare {value} entry gets the given
\* value, an identity that no item held before and no other item holds after,
\* and the initializer's metadata (empty without an initializer); the
\* external setter receives the values in the new order.
C22_SetItemsResult ==
    [][\A res \in Transforms(ArrayEntries(itemsRef)) :
           ArraySetItemsOp(res) =>
               /\ Len(itemsRef') = Len(res)
               /\ called'
               /\ Len(hostValue') = Len(res)
               /\ \A n \in 1..Len(res) :
                    /\ itemsRef'[n].index = n - 1
                    /\ hostValue'[n] = itemsRef'[n].value
                    /\ IF res[n].item # 0
                       THEN Core(itemsRef'[n]) = Core(itemsRef[res[n].item])
                       ELSE /\ itemsRef'[n].value = res[n].value
                            /\ itemsRef'[n].meta =
                                   IF initMetas THEN InitMetasFn(res[n].value)
                                   ELSE EmptyMeta
                            /\ itemsRef'[n].key # appendKeyState
                            /\ \A p \in 1..Len(itemsRef) :
                                   itemsRef[p].key # itemsRef'[n].key
                            /\ \A j \in 1..Len(res) :
                                   itemsRef'[j].key = itemsRef'[n].key => j = n
      ]_vars
\* the mount's [a, b] after setItems([{value}, a]): b is gone, a is second,
\* and the bare entry got the next identity and the initializer's metadata
C22_Witness ==
    /\ mode = ArrayMode
    /\ initMetas
    /\ called
    /\ UNIQUE_ID = 4
    /\ Len(itemsRef) = 2
    /\ itemsRef[1].key = generateKey(3)
    /\ itemsRef[1].meta = InitMetasFn(itemsRef[1].value)
    /\ itemsRef[2].key = generateKey(1)
    /\ itemsRef[2].index = 1
    /\ hostValue = <<itemsRef[1].value, itemsRef[2].value>>

\* the position after an insertion at i of the item that was at position p
\* (both 1-based for the sequence, i 0-based as the caller gives it)
ShiftedPos(p, i) == IF p <= i THEN p ELSE p + 1

\* C23: insertItem(i, value) with 0 <= i <= length puts exactly one new item
\* at position i, with the given value and an identity no item holds and that
\* is not the reserved appendKey; items before i keep their position, items
\* from i on move up by one, every pre-existing item keeps identity, value and
\* metadata, and the length grows by one (both mirrors).
C23_InsertAtPosition ==
    [][\A i \in 0..Len(itemsRef), v \in Vals :
           (\/ ArrayInsertItemOp(i, v)
            \/ \E k \in MapKeys : MapInsertItemOp(i, k, v))
           => /\ Len(itemsRef') = Len(itemsRef) + 1
              /\ itemsRef'[i + 1].value = v
              /\ itemsRef'[i + 1].key \notin GeneratedKeys
              /\ \A j \in 1..Len(itemsRef') : itemsRef'[j].index = j - 1
              /\ \A p \in 1..Len(itemsRef) :
                     Core(itemsRef'[ShiftedPos(p, i)]) = Core(itemsRef[p])
      ]_vars
\* the mount's [a, b] after insertItem(1, v): the new item sits between them
C23_Witness ==
    /\ mode = ArrayMode
    /\ initMetas
    /\ called
    /\ Len(itemsRef) = 3
    /\ KeySeq(itemsRef) = <<generateKey(1), generateKey(3), generateKey(2)>>
    /\ itemsRef[2].meta = EmptyMeta
    /\ itemsRef[3].index = 2
    /\ hostValue = ArrayValues(itemsRef)

\* C24: removeItem(i) with i in range removes exactly the item at position i:
\* the remaining items keep their relative order, identity, value and
\* metadata, the length shrinks by one, and the external setter receives the
\* value derived from the remaining items: the list without entry i, or the
\* record of the remaining items' winners.
C24_RemoveAtPosition ==
    [][\A i \in InRange :
           (ArrayRemoveItemOp(i) \/ MapRemoveItemOp(i))
           => /\ Len(itemsRef') = Len(itemsRef) - 1
              /\ CoreSeq(itemsRef') = PlainRemove(CoreSeq(itemsRef), i)
              /\ \A j \in 1..Len(itemsRef') : itemsRef'[j].index = j - 1
              /\ called'
              /\ IF mode = ArrayMode
                 THEN hostValue' = PlainRemove(ArrayValues(itemsRef), i)
                 ELSE IsDerivedRecord(hostValue', itemsRef')
      ]_vars
\* the record mirror after the holder of a mapKey was removed: the appended
\* duplicate that was ignored is now the one item of the key, and the record
\* shows its value
C24_Witness ==
    /\ mode = MapMode
    /\ called
    /\ UNIQUE_ID = 3
    /\ appendKeyState = generateKey(2)
    /\ Len(itemsRef) = 1
    /\ itemsRef[1].key = generateKey(0)
    /\ ~itemsRef[1].ignored
    /\ ~itemsRef[1].duplicated
    /\ hostValue = <<<<itemsRef[1].mapKey, itemsRef[1].value>>>>

\* a step of setValue or setMapKey at position i with the meta argument
MetaArgStep(i) ==
    \/ \E v \in Vals : ArraySetValueMetaOp(i, v) \/ MapSetValueMetaOp(i, v)
    \/ \E k \in MapKeys : MapSetMapKeyMetaOp(i, k)

\* C25: setValue(i, value, meta) with i in range and meta supplied replaces
\* the value at position i and shallow-merges meta into the item's metadata:
\* afterwards every field of meta has the supplied value, every other
\* existing field is unchanged and no other field is added (same for
\* setMapKey(i, key, meta) on the record mirror).
C25_MetaArgumentMerged ==
    [][\A i \in InRange :
           MetaArgStep(i) =>
               /\ \A p \in ArgMeta : p \in itemsRef'[i + 1].meta
               /\ \A p \in itemsRef[i + 1].meta :
                      MetaHas(ArgMeta, p[1]) \/ p \in itemsRef'[i + 1].meta
               /\ \A p \in itemsRef'[i + 1].meta :
                      MetaHas(ArgMeta, p[1]) \/ p \in itemsRef[i + 1].meta
      ]_vars

\* the indices out of range for the current shadow
OutOfRange == Idx \ InRange
\* a step of a point operation at index i
PointStep(i) ==
    \/ ArrayRemoveItemOp(i) \/ MapRemoveItemOp(i)
    \/ ArraySetMetaOp(i) \/ MapSetMetaOp(i)
    \/ \E v \in Vals :
           \/ ArraySetValueOp(i, v) \/ ArraySetValueMetaOp(i, v)
           \/ MapSetValueOp(i, v) \/ MapSetValueMetaOp(i, v)
    \/ \E k \in MapKeys : MapSetMapKeyOp(i, k) \/ MapSetMapKeyMetaOp(i, k)
    \/ \E isFn \in BOOLEAN :
           \/ ArrayValueSetterOp(i, isFn, PlainValue)
           \/ MapValueSetterOp(i, isFn, PlainValue)
           \/ ArrayMetaSetterOp(i, isFn) \/ MapMetaSetterOp(i, isFn)
    \/ \E withMeta \in BOOLEAN :
           ArrayResetMetaOp(i, withMeta) \/ MapResetMetaOp(i, withMeta)

\* C26: setValue, removeItem, setMeta, resetMeta, setMapKey and the callbacks
\* of valueSetter and metaSetter, called with an index out of range, leave the
\* shadow (length, order, identities, values, metadata, flags) and the
\* external value as they are and raise no error.
C26_OutOfRangeIsNoOp ==
    [][\/ /\ itemsRef' = itemsRef
          /\ hostValue' = hostValue
          /\ ~thrown'
       \/ ~ \E i \in OutOfRange : PointStep(i)
      ]_vars
\* a list mirror that was mounted empty and never held an item, after a call
\* that handed a value to the external setter: every index was out of range
C26_Witness ==
    /\ mode = ArrayMode
    /\ UNIQUE_ID = 1
    /\ itemsRef = <<>>
    /\ hostValue = <<>>
    /\ called
    /\ ~thrown

\* the indices insertItem does not accept: below 0 and above the length
InsertOutOfRange == {0 - 1, Len(itemsRef) + 1}

\* C27: insertItem(i, ...) with i < 0 or i > length changes nothing: no item
\* is added to the shadow and the external value stays as it is.
C27_InsertOutOfRangeIsNoOp ==
    [][\A i \in InsertOutOfRange, v \in Vals :
           (\/ ArrayInsertItemOp(i, v)
            \/ \E k \in MapKeys : MapInsertItemOp(i, k, v))
           => /\ itemsRef' = itemsRef
              /\ hostValue' = hostValue
      ]_vars

\* an item other than the one at position p (1-based) holds mapKey k
HeldByOther(its, p, k) == \E j \in 1..Len(its) : j # p /\ its[j].mapKey = k

\* C28: setMapKey(i, k) with i in range keeps the identity, value, position
\* and metadata of item i and sets its mapKey to k; every other item keeps
\* identity, mapKey, value, metadata and position; when no other item holds
\* k, item i ends non-ignored and the record handed to the external setter
\* maps k to item i's value, and it no longer has the old key unless another
\* item holds it.
C28_SetMapKeyFrame ==
    [][\A i \in InRange, k \in MapKeys :
           MapSetMapKeyOp(i, k) =>
               /\ Len(itemsRef') = Len(itemsRef)
               /\ itemsRef'[i + 1].mapKey = k
               /\ \A j \in 1..Len(itemsRef) :
                      /\ itemsRef'[j].key = itemsRef[j].key
                      /\ itemsRef'[j].value = itemsRef[j].value
                      /\ itemsRef'[j].meta = itemsRef[j].meta
                      /\ itemsRef'[j].index = j - 1
                      /\ j # i + 1 => itemsRef'[j].mapKey = itemsRef[j].mapKey
               /\ ~HeldByOther(itemsRef, i + 1, k) =>
                      /\ ~itemsRef'[i + 1].ignored
                      /\ called'
                      /\ k \in RecordKeys(hostValue')
                      /\ RecordGet(hostValue', k) = itemsRef[i + 1].value
                      /\ LET old == itemsRef[i + 1].mapKey
                         IN  (old # k /\ ~HeldByOther(itemsRef, i + 1, old))
                                 => old \notin RecordKeys(hostValue')
      ]_vars
\* the mount's {1: a, 2: b} after setMapKey(0, 2): the first item kept its
\* identity, value and metadata under the mapKey of the second, which still
\* holds it; the record lost key 1 and shows b under 2
C28_Witness ==
    /\ mode = MapMode
    /\ initMetas
    /\ called
    /\ Len(itemsRef) = 2
    /\ KeySeq(itemsRef) = <<generateKey(1), generateKey(2)>>
    /\ itemsRef[1].mapKey = 2
    /\ itemsRef[2].mapKey = 2
    /\ itemsRef[1].value # itemsRef[2].value
    /\ itemsRef[1].ignored /\ ~itemsRef[2].ignored
    /\ \A j \in 1..2 : /\ itemsRef[j].duplicated
                       /\ itemsRef[j].meta = InitMetasFn(itemsRef[j].value)
    /\ hostValue = <<<<2, itemsRef[2].value>>>>

\* what the caller's source gives for an item: the function's result, the
\* record's entry for the item's mapKey, or undefined
FromSource(kind, item) ==
    IF kind = "function" THEN MetasFn(item.value)
    ELSE IF kind = "list" /\ item.mapKey \in RecordKeys(MetasRecord)
    THEN RecordGet(MetasRecord, item.mapKey)
    ELSE undefined
\* the field setMetas wrote, on the item at position j after the step
FieldAfter(j) == MetaGet(itemsRef'[j].meta, MetaField)

\* C29 (as stated): setMetas(field, source) on the record mirror sets the
\* field to undefined on every item that is ignored, whatever the source
\* (undefined, a record by mapKey, or a function), and from the source on
\* every non-ignored item.
C29_IgnoredAlwaysUndefined ==
    [][\A kind \in MetasKinds :
           MapSetMetasOp(kind) =>
               \A j \in 1..Len(itemsRef) :
                   /\ MetaHas(itemsRef'[j].meta, MetaField)
                   /\ FieldAfter(j) = IF itemsRef[j].ignored THEN undefined
                                      ELSE FromSource(kind, itemsRef[j])
      ]_vars
\* C29 (amended): with undefined or a record by mapKey as source, setMetas
\* sets the field to undefined on every ignored item and to the record's
\* entry (undefined without a record) on every non-ignored item; with a
\* function as source it sets the field to the function's result on every
\* item, ignored or not.
C29_IgnoredUndefinedFromRecord ==
    [][\A kind \in MetasKinds :
           MapSetMetasOp(kind) =>
               \A j \in 1..Len(itemsRef) :
                   /\ MetaHas(itemsRef'[j].meta, MetaField)
                   /\ FieldAfter(j) =
                          IF itemsRef[j].ignored /\ kind # "function"
                          THEN undefined
                          ELSE FromSource(kind, itemsRef[j])
      ]_vars
\* an ignored duplicate of value 1 whose field holds the function's result,
\* next to the holder of the mapKey, whose field the function set to undefined
C29_Witness ==
    /\ mode = MapMode
    /\ Len(itemsRef) = 2
    /\ itemsRef[1].mapKey = itemsRef[2].mapKey
    /\ itemsRef[1].ignored /\ ~itemsRef[2].ignored
    /\ itemsRef[1].value = 1
    /\ itemsRef[2].value = 2
    /\ MetaGet(itemsRef[1].meta, MetaField) = MetasFn(1)
    /\ MetaHas(itemsRef[2].meta, MetaField)
    /\ MetaGet(itemsRef[2].meta, MetaField) = MetasFn(2)

\* the value a valueSetter callback stores, given the value it finds
SetterValue(isFn, found) == IF isFn THEN Updater(found) ELSE PlainValue

\* C30: a callback of valueSetter(i), whenever it is called, applies its value
\* or updater to the item that is at position i of the shadow the previous
\* operation left, rendered or not: that item gets the value, or the updater's
\* result on the value it holds then, every item keeps identity, position and
\* metadata, the other items keep their value, and the list handed to the
\* external setter is the previous one with entry i replaced, so that two
\* calls of valueSetter(i)(f) in a row leave f(f(v)).
C30_SetterReadsLatest ==
    [][\A i \in InRange, isFn \in BOOLEAN :
           (\/ ArrayValueSetterOp(i, isFn, PlainValue)
            \/ MapValueSetterOp(i, isFn, PlainValue))
           => /\ Len(itemsRef') = Len(itemsRef)
              /\ itemsRef'[i + 1].value
                     = SetterValue(isFn, itemsRef[i + 1].value)
              /\ \A j \in 1..Len(itemsRef) :
                     /\ itemsRef'[j].key = itemsRef[j].key
                     /\ itemsRef'[j].meta = itemsRef[j].meta
                     /\ itemsRef'[j].index = j - 1
                     /\ j # i + 1 => itemsRef'[j].value = itemsRef[j].value
              /\ called'
              /\ mode = ArrayMode =>
                     hostValue' = PlainSet(ArrayValues(itemsRef), i,
                                      SetterValue(isFn, itemsRef[i + 1].value))
      ]_vars
\* no render has happened since an append; the appended item was moved to
\* the front, and the callback of position 1 has changed the value of the
\* mount's item, which is there now
C30_Witness ==
    /\ mode = ArrayMode
    /\ initMetas
    /\ called
    /\ appendKey # appendKeyState
    /\ Len(itemsRef) = 2
    /\ itemsRef[1].key = appendKey
    /\ itemsRef[2].key = generateKey(1)
    /\ itemsRef[2].meta = InitMetasFn(1)
    /\ itemsRef[2].value = 2
    /\ hostValue = ArrayValues(itemsRef)

\* the (identity, value, metadata) triples of a shadow, and how many items
\* carry a triple
CoreSet(its) == {Core(its[i]) : i \in 1..Len(its)}
Count(its, t) == Cardinality({i \in 1..Len(its) : Core(its[i]) = t})
\* every triple of the shadow is carried by as many items after the step
KeptAll ==
    \A t \in CoreSet(itemsRef) : Count(itemsRef', t) >= Count(itemsRef, t)
\* no triple is carried by more items after the step than before
NoneNew ==
    \A t \in CoreSet(itemsRef') : Count(itemsRef', t) <= Count(itemsRef, t)
\* the steps of the structural operations; the first conjuncts are what the
\* operation does to the counter and the length, which tells most other
\* steps apart at once
AddStep ==
    /\ UNIQUE_ID' = UNIQUE_ID + 1
    /\ \E v \in Vals :
           \/ ArrayAppendItemOp(v)
           \/ \E k \in MapKeys : MapAppendItemOp(k, v)
           \/ \E i \in 0..Len(itemsRef) :
                  \/ ArrayInsertItemOp(i, v)
                  \/ \E k \in MapKeys : MapInsertItemOp(i, k, v)
ValidMoveStep ==
    /\ UNIQUE_ID' = UNIQUE_ID
    /\ Len(itemsRef') = Len(itemsRef)
    /\ \E from \in InRange, to \in InRange :
           ArrayMoveItemOp(from, to) \/ MapMoveItemOp(from, to)
ValidRemoveStep ==
    /\ UNIQUE_ID' = UNIQUE_ID
    /\ \E i \in InRange : ArrayRemoveItemOp(i) \/ MapRemoveItemOp(i)
SetItemsStep(res) ==
    /\ UNIQUE_ID' = UNIQUE_ID + BareCount(res)
    /\ Len(itemsRef') = Len(res)
    /\ IF mode = ArrayMode THEN ArraySetItemsOp(res) ELSE MapSetItemsOp(res)

\* C31: under moveItem with valid indices, insertItem, removeItem, appendItem
\* and setItems returning existing items, every surviving item keeps its
\* (identity, value, metadata) triple: a move keeps all triples, an addition
\* keeps all and adds one item, a removal drops one item and changes no
\* triple, and setItems carries the triple of each item it returns.
C31_TriplesSurvive ==
    [][/\ (KeptAll /\ NoneNew) \/ ~ValidMoveStep
       /\ (KeptAll /\ Len(itemsRef') = Len(itemsRef) + 1) \/ ~AddStep
       /\ (NoneNew /\ Len(itemsRef') = Len(itemsRef) - 1) \/ ~ValidRemoveStep
       /\ (called' /\ Len(itemsRef') <= MaxSet) =>
              \A res \in Transforms(IF mode = ArrayMode
                                   THEN ArrayEntries(itemsRef)
                                   ELSE MapEntries(itemsRef)) :
                  SetItemsStep(res) =>
                      \A n \in 1..Len(res) :
                          res[n].item # 0 =>
                              Core(itemsRef'[n]) = Core(itemsRef[res[n].item])
      ]_vars
\* the two items of the mount, in reverse order around an appended item, each
\* with the metadata it was built with
C31_Witness ==
    /\ mode = ArrayMode
    /\ initMetas
    /\ called
    /\ Len(itemsRef) = 3
    /\ KeySeq(itemsRef) = <<generateKey(2), generateKey(0), generateKey(1)>>
    /\ itemsRef[1].value # itemsRef[3].value
    /\ itemsRef[1].meta = InitMetasFn(itemsRef[1].value)
    /\ itemsRef[3].meta = InitMetasFn(itemsRef[3].value)
    /\ itemsRef[2].meta = EmptyMeta
    /\ \A j \in 1..3 : itemsRef[j].index = j - 1

\* C32: in every reachable state of the list and record mirrors, after every
\* hard update, soft update and rebuild, each item's index is its 0-based
\* position in the shadow sequence.
C32_IndexIsPosition == \A i \in 1..Len(itemsRef) : itemsRef[i].index = i - 1
\* the two items of the mount in reverse order, after a call that handed
\* nothing to the external setter: each has the index of the position the
\* other was built at
C32_Witness ==
    /\ mode = ArrayMode
    /\ ~called
    /\ Len(itemsRef) = 2
    /\ KeySeq(itemsRef) = <<generateKey(2), generateKey(1)>>
    /\ itemsRef[1].index = 0
    /\ itemsRef[2].index = 1

\* the non-ignored items of a shadow that hold mapKey k
LiveHolders(its, k) ==
    {i \in 1..Len(its) : its[i].mapKey = k /\ ~its[i].ignored}
\* every key of the record rec is represented by exactly one non-ignored item
\* with an equal value, and no non-ignored item holds another key
Represented(rec, its) ==
    /\ \A k \in RecordKeys(rec) :
           /\ Cardinality(LiveHolders(its, k)) = 1
           /\ \A i \in LiveHolders(its, k) : its[i].value = RecordGet(rec, k)
    /\ \A i \in 1..Len(its) :
           ~its[i].ignored => its[i].mapKey \in RecordKeys(rec)

\* C33: when the record mirror observes an external record, it keeps its
\* shadow exactly when every external key is represented by exactly one
\* non-ignored item with an equal value and no non-ignored item holds a
\* missing key; ignored items do not count. In every other case the whole
\* shadow is rebuilt from the external record.
C33_KeyedCompatibility ==
    [][(mode = MapMode /\ (Render \/ ExternalReset)) =>
           IF Represented(hostValue', itemsRef)
           THEN itemsRef' = itemsRef /\ UNIQUE_ID' = UNIQUE_ID
           ELSE /\ itemsRef' = MapRebuild(hostValue', UNIQUE_ID)
                /\ UNIQUE_ID' = UNIQUE_ID + Len(hostValue')
                /\ \A i \in 1..Len(itemsRef') :
                       itemsRef'[i].key \notin GeneratedKeys
      ]_vars
\* the host handed in the same record with its keys in another order, and the
\* shadow of the mount was kept as it was
C33_Witness ==
    /\ mode = MapMode
    /\ ~called
    /\ UNIQUE_ID = 3
    /\ Len(itemsRef) = 2
    /\ KeySeq(itemsRef) = <<generateKey(1), generateKey(2)>>
    /\ itemsRef[1].mapKey = 1
    /\ itemsRef[2].mapKey = 2
    /\ hostValue = <<<<2, itemsRef[2].value>>, <<1, itemsRef[1].value>>>>

\* the mapKeys of a shadow, and the keys of a record, in sequence order
MapKeySeq(its) == [i \in 1..Len(its) |-> its[i].mapKey]
EntryKeys(rec) == [i \in 1..Len(rec) |-> rec[i][1]]
\* the mapKeys a shadow holds, each at its first occurrence in sequence order
FirstKeySeq(its) ==
    LET F[n \in 0..Len(its)] ==
            IF n = 0 THEN <<>>
            ELSE IF \E j \in 1..(n - 1) : its[j].mapKey = its[n].mapKey
            THEN F[n - 1]
            ELSE Append(F[n - 1], its[n].mapKey)
    IN  F[Len(its)]
\* a reconciliation step that replaced the shadow; the first conjuncts are
\* what a rebuild does to the counter and the identities
RebuildStep ==
    /\ UNIQUE_ID' = UNIQUE_ID + Len(hostValue')
    /\ UNIQUE_ID' # UNIQUE_ID
    /\ \A i \in 1..Len(itemsRef') : itemsRef'[i].key \notin GeneratedKeys
    /\ Render \/ ExternalReset
\* the rebuilt shadow has one item per key of the record, none flagged
OnePerKey(rec, its) ==
    /\ Len(its) = Len(rec)
    /\ Len(its) = Cardinality(RecordKeys(rec))
    /\ \A i \in 1..Len(its) :
           /\ ~its[i].duplicated
           /\ ~its[i].ignored
           /\ its[i].mapKey \in RecordKeys(rec)
           /\ its[i].value = RecordGet(rec, its[i].mapKey)
\* the order options.sort asks of a shadow rebuilt from the record rec
InSortOrder(rec, its) ==
    /\ sort = "true" =>
           \A i, j \in 1..Len(its) : i < j => its[i].mapKey < its[j].mapKey
    /\ sort = "function" =>
           \A i, j \in 1..Len(its) : i < j => its[i].mapKey > its[j].mapKey
    /\ sort = "false" => MapKeySeq(its) = EntryKeys(rec)

\* C34: a rebuild of the record mirror produces one item per external key,
\* with duplicated = false and ignored = false, in lexical key order when sort
\* is true, in the order of the caller's comparator when sort is a function,
\* and in the record's enumeration order otherwise. The mirror operations do
\* not sort: setValue, valueSetter and setMapKey keep every item at its
\* position, appendItem adds at the end, and the record handed to the setter
\* enumerates the mapKeys in the order the shadow first holds them.
C34_SortOnlyOnRebuild ==
    [][/\ (OnePerKey(hostValue', itemsRef')
              /\ InSortOrder(hostValue', itemsRef')) \/ ~RebuildStep
       /\ KeySeq(itemsRef') = KeySeq(itemsRef)
              \/ UNIQUE_ID' # UNIQUE_ID
              \/ ~(MapSetValue \/ MapValueSetter \/ MapSetMapKey)
       /\ (/\ Len(itemsRef') = Len(itemsRef) + 1
           /\ SubSeq(KeySeq(itemsRef'), 1, Len(itemsRef)) = KeySeq(itemsRef))
              \/ UNIQUE_ID' # UNIQUE_ID + 1
              \/ ~MapAppendItem
       /\ EntryKeys(hostValue') = FirstKeySeq(itemsRef')
              \/ ~called' \/ Render \/ ExternalReset
      ]_vars
\* sort is true and the host handed in a record that enumerates its two keys
\* in reverse lexical order: the rebuilt shadow is in lexical order
C34_Witness ==
    /\ sort = "true"
    /\ ~called
    /\ UNIQUE_ID > 3
    /\ EntryKeys(hostValue) = <<2, 1>>
    /\ MapKeySeq(itemsRef) = <<1, 2>>
    /\ \A i \in 1..2 : itemsRef[i].key \in {generateKey(UNIQUE_ID - 1), generateKey(UNIQUE_ID - 2)}

\* C35: the class names are a function of the rendered drag state: with no
\* source no position has a class; the source position has the source class;
\* the target position has the target class; the item right before a target
\* that lies before the source has the after class, and the item right after
\* a target that lies after the source has the before class.
C35_ClassifyTags ==
    /\ draggingSource < 0 =>
           \A i \in 0..(MaxLen - 1) : draggingClassNames(i) = {}
    /\ draggingSource >= 0 =>
           "source" \in draggingClassNames(draggingSource)
    /\ (draggingSource >= 0 /\ draggingTarget >= 0) =>
           /\ "target" \in draggingClassNames(draggingTarget)
           /\ (draggingTarget < draggingSource /\ draggingTarget >= 1) =>
                  "after" \in draggingClassNames(draggingTarget - 1)
           /\ (/\ draggingTarget > draggingSource
               /\ draggingTarget + 1 < Len(itemsRef)) =>
                  "before" \in draggingClassNames(draggingTarget + 1)

\* C36: reconciliation converges: once the effect has run on an observed
\* value, whether it rebuilt the shadow or kept it, the shadow passes the
\* compatibility check against that same value, so that the next run of the
\* effect rebuilds nothing.
C36_ReconciliationConverges ==
    [][(Render \/ ExternalReset) => AreItemsCompatible(hostValue', itemsRef')
      ]_vars

\* Idle, Armed or Targeting: the three shapes of a source and a target
DragShape(source, target) ==
    \/ source = 0 - 1 /\ target = 0 - 1
    \/ source >= 0 /\ target = 0 - 1
    \/ source >= 0 /\ target >= 0 /\ target # source

\* C37: under any sequence of dragStart, dragOver, drop and dragEnd events,
\* with or without a render between them, the drag state is Idle (no source,
\* no target), Armed (a source, no target) or Targeting (a source and a
\* target other than the source): both the state the handlers have set and
\* the state the component renders.
C37_DragStateShape ==
    /\ DragShape(sourceState, targetState)
    /\ DragShape(draggingSource, draggingTarget)

\* identity, mapKey, value and flags of an item of the record mirror
Flagged(item) ==
    <<item.key, item.mapKey, item.value, item.ignored, item.duplicated>>
\* the number of items of a shadow that carry the tuple t
FlaggedCount(its, t) == Cardinality({i \in 1..Len(its) : Flagged(its[i]) = t})
\* a moveItem step of the record mirror with two distinct valid indices
MapValidMoveStep ==
    /\ mode = MapMode
    /\ UNIQUE_ID' = UNIQUE_ID
    /\ Len(itemsRef') = Len(itemsRef)
    /\ \E from \in InRange, to \in InRange :
           from # to /\ MapMoveItemOp(from, to)

\* C38: moveItem(from, to) with valid indices on the record mirror does not
\* change which item wins a mapKey: every item keeps its ignored and
\* duplicated flags, and the record handed to the setter is the record of the
\* winners the shadow had before the move.
C38_MoveKeepsWinners ==
    [][MapValidMoveStep =>
           /\ \A i \in 1..Len(itemsRef) :
                  FlaggedCount(itemsRef', Flagged(itemsRef[i])) =
                      FlaggedCount(itemsRef, Flagged(itemsRef[i]))
           /\ called'
           /\ IsDerivedRecord(hostValue', itemsRef)
      ]_vars
\* an ignored duplicate stands in front of the winner of its mapKey and the
\* setter was handed the winner's entry alone, as after setMapKey(1, k) and
\* moveItem(1, 0) on a mount of two keys
C38_Witness ==
    /\ mode = MapMode
    /\ called
    /\ UNIQUE_ID = 3
    /\ KeySeq(itemsRef) = <<generateKey(2), generateKey(1)>>
    /\ itemsRef[1].mapKey = itemsRef[2].mapKey
    /\ itemsRef[1].ignored
    /\ ~itemsRef[2].ignored
    /\ Len(hostValue) = 1

\* a setMapKey(i, k) step in which k is the mapKey item i holds
OwnKeyStep(i) ==
    /\ mode = MapMode
    /\ i \in InRange
    /\ MapSetMapKeyOp(i, itemsRef[i + 1].mapKey)
\* item p (1-based) wins its mapKey and an item that shares it stands before
PrecededWinner(its, p) ==
    /\ ~its[p].ignored
    /\ \E j \in 1..(p - 1) : its[j].mapKey = its[p].mapKey
\* every item keeps its flags and the setter gets the record of the winners
\* the shadow had
NothingObservable ==
    /\ Len(itemsRef') = Len(itemsRef)
    /\ \A j \in 1..Len(itemsRef) :
           /\ itemsRef'[j].ignored = itemsRef[j].ignored
           /\ itemsRef'[j].duplicated = itemsRef[j].duplicated
    /\ IsDerivedRecord(hostValue', itemsRef)

\* C39 as stated: setMapKey(i, k) where k is already the mapKey of item i
\* changes nothing observable: every item keeps its flags, item i stays the
\* winner if it was, and the derived record is unchanged.
C39_OwnKeyIsNoOp ==
    [][\A i \in 0..(MaxMapLen - 1) : OwnKeyStep(i) => NothingObservable]_vars

\* C39, amended: setMapKey(i, k) where k is already the mapKey of item i
\* changes nothing observable unless item i was the winner of k and another
\* item that shares k precedes it; in that case the first item that holds k
\* becomes the winner, item i becomes ignored, every other item keeps its
\* flags, and the record handed to the setter maps k to the new winner's
\* value and is otherwise unchanged.
C39_OwnKeyUnlessPreceded ==
    [][\A i \in 0..(MaxMapLen - 1) :
           OwnKeyStep(i) =>
               IF ~PrecededWinner(itemsRef, i + 1) THEN NothingObservable
               ELSE LET group == SameMapKey(itemsRef, i + 1)
                        first == MinPos(group)
                    IN  /\ Len(itemsRef') = Len(itemsRef)
                        /\ ~itemsRef'[first].ignored
                        /\ itemsRef'[i + 1].ignored
                        /\ \A j \in 1..Len(itemsRef) :
                               /\ itemsRef'[j].duplicated =
                                      itemsRef[j].duplicated
                               /\ j \notin {first, i + 1} =>
                                      itemsRef'[j].ignored =
                                          itemsRef[j].ignored
                               /\ Core(itemsRef'[j]) = Core(itemsRef[j])
                        /\ called'
                        /\ RecordKeys(hostValue') = HeldKeys
                        /\ RecordGet(hostValue', itemsRef[first].mapKey) =
                               itemsRef[first].value
                        /\ \A j \in 1..Len(itemsRef) :
                               (j \notin group /\ ~itemsRef[j].ignored) =>
                                   RecordGet(hostValue', itemsRef[j].mapKey) =
                                       itemsRef[j].value
      ]_vars
\* two items of the mount share a mapKey, the second of the mount stands
\* first and wins, and the first of the mount is ignored: as after
\* setMapKey(1, k) on the winner that stood second
C39_Witness ==
    /\ mode = MapMode
    /\ called
    /\ UNIQUE_ID = 3
    /\ KeySeq(itemsRef) = <<generateKey(2), generateKey(1)>>
    /\ itemsRef[1].mapKey = itemsRef[2].mapKey
    /\ ~itemsRef[1].ignored
    /\ itemsRef[2].ignored
    /\ hostValue = <<<<itemsRef[1].mapKey, itemsRef[1].value>>>>

\* the external value derived from a shadow: the values of a list, the
\* winners' entries of a record
IsDerivedValue(val, its) ==
    IF mode = ArrayMode THEN val = ArrayValues(its)
    ELSE IsDerivedRecord(val, its)

\* C40: data flows one way. A render leaves the host's value alone and calls
\* no setter, whether its effect rebuilds the shadow or keeps it; so does the
\* observation of a foreign value. A soft update calls no setter either. When
\* the setter is called, it is within a hard operation and before it returns:
\* the value handed over is the one derived from the shadow that operation
\* stored.
C40_OneWayFlow ==
    [][/\ (hostValue' = hostValue /\ called' = called) \/ ~Render
       /\ ~called' \/ ~ExternalReset
       /\ (~called' /\ hostValue' = hostValue)
              \/ ~(ArrayResetMetas \/ MapResetMetas)
       /\ hostValue' = hostValue \/ called' \/ ExternalReset
       /\ called' => IsDerivedValue(hostValue', itemsRef')
      ]_vars
\* the host replaced a mounted list by a list of its own: the shadow was
\* rebuilt with fresh identities and no setter was called
C40_Witness ==
    /\ mode = ArrayMode
    /\ ~called
    /\ Len(itemsRef) = 2
    /\ UNIQUE_ID = 4
    /\ KeySeq(itemsRef) = <<generateKey(2), generateKey(3)>>
    /\ hostValue = ArrayValues(itemsRef)

====
